---- MODULE Spec2Model ----
(***************************************************************************)
(* Report-to-games reconstruction of the FIDE tournament report scraper    *)
(* (src/src/scraper/get_tournament_reports.py): round-date conversion and  *)
(* date-format inference, the two-pass table walk of a report document and *)
(* the white/black game deduplication of flatten_to_games.                 *)
(*                                                                         *)
(* Text that the code inspects character by character (round dates, cell   *)
(* texts, player ids, anchors) is a sequence of one-character strings.     *)
(* Values the code only compares or copies (colours, forfeit indicators,   *)
(* tournament codes, names) are atomic strings.                            *)
(* A float score is counted in half points: 0 = 0.0, 1 = 0.5, 2 = 1.0.     *)
(***************************************************************************)
EXTENDS Integers, Sequences, FiniteSets, TLC

VARIABLES
    pc,            \* position of the modelled call: "call" before, "done" after
    date_strings,  \* infer_date_format: the list of raw date strings
    start_iso,     \* lower tournament bound (details_map entry), <<>> when None
    end_iso,       \* upper tournament bound (details_map entry), <<>> when None
    date_format,   \* the format infer_date_format returned
    flattened,     \* flatten_to_games: the input player-round rows
    games,         \* flatten_to_games: the emitted GameRecords
    table,         \* fetch_tournament_report: the document has a table.calc_table
    rows,          \* fetch_tournament_report: the <tr> rows of the results table
    anchor_to_id,  \* fetch_tournament_report: the AnchorMap of the first pass
    players,       \* fetch_tournament_report: the PlayerRecords of the walk
    error,         \* fetch_tournament_report: the error string returned, <<>> for None
    attempt,       \* fetch_tournament_report: HTTP attempts made in the current call
    last_error,    \* fetch_tournament_report: last_error of the attempt loop
    pass_num,      \* main: the retry pass
    pass_failed,   \* main: the tournament codes queued for the next pass
    all_results,   \* main: the results appended so far
    current_tournaments, \* main: the tournament codes of the current pass
    next_idx,      \* main: position of `for tournament_code in current_tournaments`
    success_count, \* main: the successful fetches so far
    checkpoint,    \* main: the results list of the save_checkpoint calls, in order
    arg,           \* a single function call: its argument
    ret            \* a single function call: its return value

fetchVars == <<attempt, last_error, pass_num, pass_failed, all_results>>

mainVars == <<current_tournaments, next_idx, success_count, checkpoint>>

callVars == <<arg, ret>>

vars == <<pc, date_strings, start_iso, end_iso, date_format, flattened, games,
          table, rows, anchor_to_id, players, error, fetchVars, mainVars, callVars>>

\* before main's loop has fetched anything
FetchIdle ==
    /\ attempt = 0
    /\ last_error = <<>>
    /\ pass_num = 0
    /\ pass_failed = <<>>
    /\ all_results = <<>>

\* main's loop over several tournaments is not modelled
MainIdle ==
    /\ current_tournaments = <<>>
    /\ next_idx = 0
    /\ success_count = 0
    /\ checkpoint = <<>>

\* no function call under way
CallIdle == arg = <<>> /\ ret = <<>>

----------------------------------------------------------------------------
(* Bounds of the model *)

MaxDates == 2
MaxRows == 2

\* longest table of the report pipeline
MaxTableRows == 4

----------------------------------------------------------------------------
(* Python values *)

\* None where a string is expected; like "" it is falsy.
NoneStr == <<"None">>

\* None where an ISO date (<<year, month, day>>) is expected; "" is the same value.
NoneIso == <<>>

\* `not s` for a string or None
Falsy(s) == s = <<>> \/ s = NoneStr

\* the empty dict
EmptyMap == [k \in {} |-> <<>>]

Digit == {"0", "1", "2", "3", "4", "5", "6", "7", "8", "9"}

DigitVal(ch) ==
    CASE ch = "0" -> 0 [] ch = "1" -> 1 [] ch = "2" -> 2 [] ch = "3" -> 3
      [] ch = "4" -> 4 [] ch = "5" -> 5 [] ch = "6" -> 6 [] ch = "7" -> 7
      [] ch = "8" -> 8 [] ch = "9" -> 9

\* str.strip(): leading and trailing blanks removed
RECURSIVE strip(_)
strip(s) ==
    IF Len(s) = 0 THEN s
    ELSE IF s[1] = " " THEN strip(Tail(s))
    ELSE IF s[Len(s)] = " " THEN strip(SubSeq(s, 1, Len(s) - 1))
    ELSE s

\* int(s) succeeds (no ValueError): decimal digits, blanks around them allowed
IntOk(s) == LET t == strip(s) IN Len(t) > 0 /\ \A i \in 1..Len(t) : t[i] \in Digit

RECURSIVE DigitsVal(_)
DigitsVal(t) ==
    IF Len(t) = 0 THEN 0
    ELSE 10 * DigitsVal(SubSeq(t, 1, Len(t) - 1)) + DigitVal(t[Len(t)])

\* int(s), defined where IntOk(s)
int(s) == DigitsVal(strip(s))

\* the number of consecutive digits of s from position i on
RECURSIVE DigitRun(_, _)
DigitRun(s, i) ==
    IF i > Len(s) \/ s[i] \notin Digit THEN 0 ELSE 1 + DigitRun(s, i + 1)

\* re.match(r"\d{1,2}/\d{1,2}/\d{2,4}", s): a prefix match, nothing anchors the end
MatchesRoundDate(s) ==
    LET n1 == DigitRun(s, 1) IN
    /\ n1 \in {1, 2}
    /\ Len(s) >= n1 + 1 /\ s[n1 + 1] = "/"
    /\ LET n2 == DigitRun(s, n1 + 2) IN
       /\ n2 \in {1, 2}
       /\ Len(s) >= n1 + n2 + 2 /\ s[n1 + n2 + 2] = "/"
       /\ DigitRun(s, n1 + n2 + 3) >= 2

\* s.split("/")
RECURSIVE split(_)
split(s) ==
    IF \A i \in 1..Len(s) : s[i] # "/" THEN <<s>>
    ELSE LET k == CHOOSE i \in 1..Len(s) :
                      s[i] = "/" /\ \A j \in 1..(i - 1) : s[j] # "/"
         IN <<SubSeq(s, 1, k - 1)>> \o split(SubSeq(s, k + 1, Len(s)))

----------------------------------------------------------------------------
(* Round-date conversion *)

\* mutant of _to_year: the pivot year 50 still counts as 20xx
_to_year_pivot_51(y) ==
    LET n == int(y) IN
    IF Len(y) = 4 THEN n
    ELSE IF n < 51 THEN 2000 + n ELSE 1900 + n

_to_year(y) ==
    LET n == int(y) IN
    IF Len(y) = 4 THEN n
    ELSE IF n < 50 THEN 2000 + n ELSE 1900 + n

_parse_round_date_with_format(date_str, fmt) ==
    IF Falsy(date_str) \/ ~MatchesRoundDate(strip(date_str)) THEN NoneIso
    ELSE LET parts == split(strip(date_str)) IN
         IF Len(parts) # 3 THEN NoneIso
         ELSE LET a == parts[1]
                  b == parts[2]
                  c == parts[3]
                  \* m, d = int(..), int(..): a ValueError leaves the try block
              IN IF fmt = "yy/mm/dd"
                 THEN IF ~IntOk(b) \/ ~IntOk(c) THEN NoneIso
                      ELSE LET m == int(b)
                               d == int(c)
                           IN IF 1 <= m /\ m <= 12 /\ 1 <= d /\ d <= 31
                              THEN IF IntOk(a) THEN <<_to_year(a), m, d>>
                                   ELSE NoneIso
                              ELSE NoneIso
                 ELSE IF fmt = "dd/mm/yy"
                 THEN IF ~IntOk(a) \/ ~IntOk(b) THEN NoneIso
                      ELSE LET d == int(a)
                               m == int(b)
                           IN IF 1 <= m /\ m <= 12 /\ 1 <= d /\ d <= 31
                              THEN IF IntOk(c) THEN <<_to_year(c), m, d>>
                                   ELSE NoneIso
                              ELSE NoneIso
                 ELSE NoneIso

\* mutant of parse_date_to_iso: the format is not used, each date is tried
\* year-first, then day-first
parse_date_to_iso_per_date(date_str, fmt) ==
    IF Falsy(date_str) THEN NoneIso
    ELSE IF _parse_round_date_with_format(date_str, "yy/mm/dd") # NoneIso
         THEN _parse_round_date_with_format(date_str, "yy/mm/dd")
         ELSE _parse_round_date_with_format(date_str, "dd/mm/yy")

parse_date_to_iso(date_str, fmt) ==
    IF Falsy(date_str) THEN NoneIso
    ELSE IF fmt # "" THEN _parse_round_date_with_format(date_str, fmt)
    ELSE IF _parse_round_date_with_format(date_str, "yy/mm/dd") # NoneIso
         THEN _parse_round_date_with_format(date_str, "yy/mm/dd")
         ELSE _parse_round_date_with_format(date_str, "dd/mm/yy")

----------------------------------------------------------------------------
(* datetime: a date is its proleptic Gregorian ordinal, 0 stands for "no date" *)

IsLeap(y) == y % 4 = 0 /\ (y % 100 # 0 \/ y % 400 = 0)

DaysInMonth(y, m) ==
    IF m = 2 THEN (IF IsLeap(y) THEN 29 ELSE 28)
    ELSE IF m \in {4, 6, 9, 11} THEN 30 ELSE 31

RECURSIVE DaysBeforeMonth(_, _)
DaysBeforeMonth(y, m) ==
    IF m = 1 THEN 0 ELSE DaysBeforeMonth(y, m - 1) + DaysInMonth(y, m - 1)

toordinal(iso) ==
    LET y1 == iso[1] - 1 IN
    365 * y1 + (y1 \div 4) - (y1 \div 100) + (y1 \div 400)
        + DaysBeforeMonth(iso[1], iso[2]) + iso[3]

\* datetime.strptime(iso, "%Y-%m-%d"): 0 where it raises ValueError
strptime(iso) ==
    IF /\ iso # NoneIso
       /\ 1 <= iso[1] /\ iso[1] <= 9999
       /\ 1 <= iso[2] /\ iso[2] <= 12
       /\ 1 <= iso[3] /\ iso[3] <= DaysInMonth(iso[1], iso[2])
    THEN toordinal(iso) ELSE 0

SetMin(S) == CHOOSE x \in S : \A y \in S : x <= y
SetMax(S) == CHOOSE x \in S : \A y \in S : x >= y

----------------------------------------------------------------------------
(* infer_date_format *)

candidates == <<"yy/mm/dd", "dd/mm/yy">>

\* float("inf"), the initial best_score; every score is >= 0
Inf == -1

\* date_strs: the input strings that have the round-date shape
date_strs_of(ds) ==
    SelectSeq(ds, LAMBDA s : ~Falsy(s) /\ MatchesRoundDate(strip(s)))

\* parsed: the datetimes of the strings that convert under fmt
parsed_of(ds, fmt) ==
    {strptime(_parse_round_date_with_format(ds[i], fmt)) : i \in 1..Len(ds)} \ {0}

\* start_dt / end_dt: 0 when the bound is missing or is no calendar date
bound_dt(iso) == IF iso = NoneIso THEN 0 ELSE strptime(iso)

\* mutant of format_score: the bounds are ignored, the score is the span alone
format_score_span_only(ds, fmt, s_iso, e_iso) ==
    LET parsed == {strptime(_parse_round_date_with_format(ds[i], fmt)) :
                       i \in 1..Len(ds)} \ {0}
    IN SetMax(parsed) - SetMin(parsed)

\* mutant of format_score: the first and the last parsed date are taken as the
\* earliest and the latest, as if the strings came sorted
format_score_first_to_last(ds, fmt, s_iso, e_iso) ==
    LET at(i) == strptime(_parse_round_date_with_format(ds[i], fmt))
        idx == {i \in 1..Len(ds) : at(i) # 0}
        min_d == at(SetMin(idx))
        max_d == at(SetMax(idx))
        start_dt == bound_dt(s_iso)
        end_dt == bound_dt(e_iso)
        below == IF start_dt # 0 /\ min_d < start_dt
                 THEN (start_dt - min_d) * 1000 ELSE 0
        above == IF end_dt # 0 /\ max_d > end_dt
                 THEN (max_d - end_dt) * 1000 ELSE 0
    IN (max_d - min_d) + below + above

\* range_days + out_of_range of one candidate that parsed something
format_score(ds, fmt, s_iso, e_iso) ==
    LET parsed == parsed_of(ds, fmt)
        min_d == SetMin(parsed)
        max_d == SetMax(parsed)
        start_dt == bound_dt(s_iso)
        end_dt == bound_dt(e_iso)
        below == IF start_dt # 0 /\ min_d < start_dt
                 THEN (start_dt - min_d) * 1000 ELSE 0
        above == IF end_dt # 0 /\ max_d > end_dt
                 THEN (max_d - end_dt) * 1000 ELSE 0
    IN (max_d - min_d) + below + above

\* mutant of infer_step: `score <= best_score`, so a tie goes to the later candidate
infer_step_tie_to_later(acc, ds, fmt, s_iso, e_iso) ==
    IF parsed_of(ds, fmt) = {} THEN acc
    ELSE LET score == format_score(ds, fmt, s_iso, e_iso) IN
         IF acc.best_score = Inf \/ score <= acc.best_score
         THEN [best |-> fmt, best_score |-> score]
         ELSE acc

\* one iteration of `for fmt in candidates`
infer_step(acc, ds, fmt, s_iso, e_iso) ==
    IF parsed_of(ds, fmt) = {} THEN acc
    ELSE LET score == format_score(ds, fmt, s_iso, e_iso) IN
         IF acc.best_score = Inf \/ score < acc.best_score
         THEN [best |-> fmt, best_score |-> score]
         ELSE acc

RECURSIVE infer_loop(_, _, _, _, _)
infer_loop(k, acc, ds, s_iso, e_iso) ==
    IF k > Len(candidates) THEN acc
    ELSE infer_loop(k + 1, infer_step(acc, ds, candidates[k], s_iso, e_iso),
                    ds, s_iso, e_iso)

infer_date_format(strs, s_iso, e_iso) ==
    LET ds == date_strs_of(strs) IN
    IF ds = <<>> THEN "yy/mm/dd"
    ELSE infer_loop(1, [best |-> "yy/mm/dd", best_score |-> Inf], ds, s_iso, e_iso).best

----------------------------------------------------------------------------
(* Score cell *)

\* None where a number (round, score) is expected
NoneNum == -1

Lower(ch) ==
    CASE ch = "F" -> "f" [] ch = "O" -> "o" [] ch = "R" -> "r" [] ch = "E" -> "e"
      [] ch = "I" -> "i" [] ch = "T" -> "t" [] ch = "U" -> "u" [] ch = "N" -> "n"
      [] ch = "D" -> "d" [] OTHER -> ch

\* str.lower()
lower(s) == [i \in 1..Len(s) |-> Lower(s[i])]

\* `sub in s`
Contains(s, sub) ==
    \E i \in 1..(Len(s) - Len(sub) + 1) : SubSeq(s, i, i + Len(sub) - 1) = sub

\* mutant of HalfPoints: a numeral with integer part 1 is 1.0 whatever its fraction
HalfPoints_ignores_fraction(ip, fp) ==
    LET zero(t) == \A i \in 1..Len(t) : t[i] = "0"
    IN IF zero(ip) /\ zero(fp) THEN 0
       ELSE IF zero(ip) /\ Len(fp) >= 1 /\ fp[1] = "5" /\ zero(Tail(fp)) THEN 1
       ELSE IF DigitsVal(ip) = 1 THEN 2
       ELSE NoneNum

\* the float of a decimal numeral with integer digits ip and fraction digits fp,
\* in half points when it is exactly 0.0, 0.5 or 1.0, else None
HalfPoints(ip, fp) ==
    LET zero(t) == \A i \in 1..Len(t) : t[i] = "0"
    IN IF zero(ip) /\ zero(fp) THEN 0
       ELSE IF zero(ip) /\ Len(fp) >= 1 /\ fp[1] = "5" /\ zero(Tail(fp)) THEN 1
       ELSE IF DigitsVal(ip) = 1 /\ zero(fp) THEN 2
       ELSE NoneNum

\* mutant of parse_score: a forfeit text is searched for a number like any other
parse_score_of_forfeit_text(score_text) ==
    IF Falsy(score_text) THEN NoneNum
    ELSE LET t == lower(strip(score_text)) IN
         IF \A i \in 1..Len(t) : t[i] \notin Digit THEN NoneNum
         ELSE LET p == CHOOSE i \in 1..Len(t) :
                           t[i] \in Digit /\ \A j \in 1..(i - 1) : t[j] \notin Digit
                  n == DigitRun(t, p)
                  dot == p + n <= Len(t) /\ t[p + n] = "."
                  m == IF dot THEN DigitRun(t, p + n + 1) ELSE 0
              IN HalfPoints(SubSeq(t, p, p + n - 1),
                            IF dot THEN SubSeq(t, p + n + 1, p + n + m) ELSE <<>>)

parse_score(score_text) ==
    IF Falsy(score_text) THEN NoneNum
    ELSE LET t == lower(strip(score_text)) IN
         IF Contains(t, <<"f", "o", "r", "f", "e", "i", "t">>) \/ t \in {<<"-">>, <<"+">>}
         THEN NoneNum
         ELSE IF \A i \in 1..Len(t) : t[i] \notin Digit THEN NoneNum
         ELSE \* re.search(r"(\d+\.?\d*)"): the leftmost digit starts the match
              LET p == CHOOSE i \in 1..Len(t) :
                           t[i] \in Digit /\ \A j \in 1..(i - 1) : t[j] \notin Digit
                  n == DigitRun(t, p)
                  dot == p + n <= Len(t) /\ t[p + n] = "."
                  m == IF dot THEN DigitRun(t, p + n + 1) ELSE 0
              IN HalfPoints(SubSeq(t, p, p + n - 1),
                            IF dot THEN SubSeq(t, p + n + 1, p + n + m) ELSE <<>>)

\* mutant of extract_forfeit_indicator: any sign in the text is a forfeit marker
extract_forfeit_indicator_any_sign(score_text) ==
    IF Falsy(score_text) THEN ""
    ELSE IF Contains(score_text, <<"-">>) THEN "-"
    ELSE IF Contains(score_text, <<"+">>) THEN "+"
    ELSE ""

\* mutant of extract_forfeit_indicator: a forfeit text without a sign gives "+"
extract_forfeit_indicator_default_plus(score_text) ==
    IF Falsy(score_text) THEN ""
    ELSE LET t == strip(score_text) IN
         IF Contains(lower(t), <<"f", "o", "r", "f", "e", "i", "t">>)
         THEN IF Contains(t, <<"-">>) THEN "-"
              ELSE "+"
         ELSE IF t = <<"-">> THEN "-"
         ELSE IF t = <<"+">> THEN "+"
         ELSE ""

extract_forfeit_indicator(score_text) ==
    IF Falsy(score_text) THEN ""
    ELSE LET t == strip(score_text) IN
         IF Contains(lower(t), <<"f", "o", "r", "f", "e", "i", "t">>)
         THEN IF Contains(t, <<"-">>) THEN "-"
              ELSE IF Contains(t, <<"+">>) THEN "+"
              ELSE "-"
         ELSE IF t = <<"-">> THEN "-"
         ELSE IF t = <<"+">> THEN "+"
         ELSE ""

----------------------------------------------------------------------------
(* Cells of a table row.  A row is [ncells, first, links, text, white_note,     *)
(* black_note, score_text]: the number of <td> cells, the stripped text of cell *)
(* 0, the <a> elements of cell 1 (each [name, href, text], NoneStr for a        *)
(* missing attribute), the text of cell 1 outside its links, the two colour     *)
(* marker spans of cell 1, and the stripped text of cell 6.  Cells 2 to 5 are   *)
(* only copied into the records and are left out.                               *)

\* str.isdigit()
isdigit(s) == Len(s) > 0 /\ \A i \in 1..Len(s) : s[i] \in Digit

\* the number of consecutive blanks of s from position i on
RECURSIVE SpaceRun(_, _)
SpaceRun(s, i) ==
    IF i > Len(s) \/ s[i] # " " THEN 0 ELSE 1 + SpaceRun(s, i + 1)

\* <<round_num, date_str>> of the text of cell 0
parse_round_date(round_text) ==
    IF Falsy(round_text) THEN <<NoneNum, NoneStr>>
    ELSE LET t == strip(round_text)
             n == DigitRun(t, 1)
             w == SpaceRun(t, n + 1)
             p == n + w + 1
         IN IF n = 0 THEN <<NoneNum, NoneStr>>
            \* re.match(r"(\d+)\s+(\d{2}/\d{2}/\d{2,4})")
            ELSE IF /\ w >= 1
                    /\ DigitRun(t, p) = 2
                    /\ Len(t) >= p + 2 /\ t[p + 2] = "/"
                    /\ DigitRun(t, p + 3) = 2
                    /\ Len(t) >= p + 5 /\ t[p + 5] = "/"
                    /\ DigitRun(t, p + 6) >= 2
            THEN <<DigitsVal(SubSeq(t, 1, n)),
                   SubSeq(t, p, p + 5 + (IF DigitRun(t, p + 6) > 4 THEN 4
                                         ELSE DigitRun(t, p + 6)))>>
            ELSE <<DigitsVal(SubSeq(t, 1, n)), NoneStr>>

\* the fragment of the first link that has an href, "" when there is none
extract_href_anchor_from_cell(row) ==
    LET with_href == {k \in 1..Len(row.links) : row.links[k].href # NoneStr} IN
    IF with_href = {} THEN <<>>
    ELSE LET href == row.links[SetMin(with_href)].href IN
         IF Len(href) >= 1 /\ href[1] = "#" THEN strip(Tail(href)) ELSE <<>>

extract_color_from_cell(row) ==
    IF row.white_note THEN "white"
    ELSE IF row.black_note THEN "black"
    ELSE ""

\* the text parts of cell 1 (the code joins them with blanks): the non-empty
\* link texts, then the text outside the links
extract_text_from_cell(row) ==
    SelectSeq([k \in 1..Len(row.links) |-> row.links[k].text], LAMBDA x : x # "")
        \o (IF row.text # "" THEN <<row.text>> ELSE <<>>)

----------------------------------------------------------------------------
(* fetch_tournament_report: the parse of a fetched document *)

\* first pass, one row: a row with at least 2 cells and a numeric first cell maps
\* the name (or id) of the first <a> that has one to the number of its first cell
anchor_step(map, row) ==
    IF row.ncells >= 2 /\ isdigit(row.first)
    THEN LET named == {k \in 1..Len(row.links) : ~Falsy(row.links[k].name)} IN
         IF named = {} THEN map
         ELSE LET anchor == row.links[SetMin(named)].name IN
              [k \in DOMAIN map \cup {anchor} |->
                  IF k = anchor THEN row.first ELSE map[k]]
    ELSE map

RECURSIVE anchor_pass(_, _, _)
anchor_pass(k, map, rs) ==
    IF k > Len(rs) THEN map ELSE anchor_pass(k + 1, anchor_step(map, rs[k]), rs)

\* mutant of anchor_map_of: the anchors are collected while walking, so a round
\* row sees only the anchors of the rows above it
anchor_rows_above(rs, i) == anchor_pass(1, EmptyMap, SubSeq(rs, 1, i - 1))

\* the anchor_to_id the round row at index i is resolved against: the first pass
\* has run over all rows before the walk starts
anchor_map_of(rs, i) == anchor_pass(1, EmptyMap, rs)

\* mutant of round_data_of: an anchor that is not in the map is taken as the id
round_data_of_anchor_as_id(rs, i) ==
    LET row == rs[i]
        anchor == extract_href_anchor_from_cell(row)
        map == anchor_map_of(rs, i)
    IN [round |-> parse_round_date(row.first)[1],
        date |-> parse_round_date(row.first)[2],
        opp_name |-> extract_text_from_cell(row),
        opp_id |-> IF anchor # <<>> /\ anchor \in DOMAIN map THEN map[anchor] ELSE anchor,
        color |-> extract_color_from_cell(row),
        score |-> parse_score(row.score_text),
        forfeit |-> extract_forfeit_indicator(row.score_text),
        row |-> i]

\* the round_data of the round row at index i, with the index of its table row
round_data_of(rs, i) ==
    LET row == rs[i]
        anchor == extract_href_anchor_from_cell(row)
        map == anchor_map_of(rs, i)
    IN [round |-> parse_round_date(row.first)[1],
        date |-> parse_round_date(row.first)[2],
        opp_name |-> extract_text_from_cell(row),
        opp_id |-> IF anchor # <<>> /\ anchor \in DOMAIN map THEN map[anchor] ELSE <<>>,
        color |-> extract_color_from_cell(row),
        score |-> parse_score(row.score_text),
        forfeit |-> extract_forfeit_indicator(row.score_text),
        row |-> i]

\* mutant of keeps_round: a row without opponent name and without forfeit marker is kept
keeps_round_with_byes(round_data) == TRUE

\* `if opp_name or is_forfeit`: the round is appended to the player's rounds
keeps_round(round_data) == round_data.opp_name # <<>> \/ round_data.forfeit # ""

\* the row has at least 7 cells and its first cell starts with a digit
is_round_row(row) == row.ncells >= 7 /\ Len(row.first) > 0 /\ row.first[1] \in Digit

\* the row has at least 7 cells and its first cell is a number
is_player_row(row) == row.ncells >= 7 /\ isdigit(row.first)

\* the row has at least 7 cells and its first cell reads "round"
is_header_row(row) == row.ncells >= 7 /\ lower(row.first) = <<"r", "o", "u", "n", "d">>

\* the round loop from row i on: <<index of the row that ends it, rounds>>
RECURSIVE collect_rounds(_, _, _)
collect_rounds(i, rounds, rs) ==
    IF i > Len(rs) \/ ~is_round_row(rs[i]) THEN <<i, rounds>>
    ELSE collect_rounds(i + 1,
                        IF keeps_round(round_data_of(rs, i))
                        THEN Append(rounds, round_data_of(rs, i))
                        ELSE rounds,
                        rs)

\* mutant of walk: the row below a summary row is never skipped as a header
RECURSIVE walk_no_header_skip(_, _, _)
walk_no_header_skip(i, ps, rs) ==
    IF i > Len(rs) THEN ps
    ELSE IF is_player_row(rs[i])
    THEN LET got == collect_rounds(i + 1, <<>>, rs)
         IN walk_no_header_skip(got[1],
                 Append(ps, [id |-> rs[i].first,
                             name |-> extract_text_from_cell(rs[i]),
                             rounds |-> got[2],
                             row |-> i]),
                 rs)
    ELSE walk_no_header_skip(i + 1, ps, rs)

\* the player walk from row i on
RECURSIVE walk(_, _, _)
walk(i, ps, rs) ==
    IF i > Len(rs) THEN ps
    ELSE IF is_player_row(rs[i])
    THEN LET j == IF i + 1 <= Len(rs) /\ is_header_row(rs[i + 1]) THEN i + 2 ELSE i + 1
             got == collect_rounds(j, <<>>, rs)
         IN walk(got[1],
                 Append(ps, [id |-> rs[i].first,
                             name |-> extract_text_from_cell(rs[i]),
                             rounds |-> got[2],
                             row |-> i]),
                 rs)
    ELSE walk(i + 1, ps, rs)

----------------------------------------------------------------------------
(* flatten_result *)

FlatRow(tc, success, err, pid, rnd, date, opp, color, score, forfeit) ==
    [tournament_code |-> tc, success |-> success, error |-> err,
     player_id |-> pid, opp_id |-> opp,
     round |-> rnd, round_date |-> date, color |-> color, score |-> score,
     forfeit |-> forfeit]

\* mutant of player_rows: a player without rounds gives no row
player_rows_rounds_only(tc, player) ==
    [k \in 1..Len(player.rounds) |->
        LET round_data == player.rounds[k] IN
        FlatRow(tc, TRUE, <<>>, player.id, round_data.round, round_data.date,
                round_data.opp_id, round_data.color, round_data.score,
                round_data.forfeit)]

\* the rows of one player: one per round, or a single row without round
player_rows(tc, player) ==
    IF player.rounds = <<>>
    THEN <<FlatRow(tc, TRUE, <<>>, player.id, NoneNum, <<>>, <<>>, "", NoneNum, "")>>
    ELSE [k \in 1..Len(player.rounds) |->
             LET round_data == player.rounds[k] IN
             FlatRow(tc, TRUE, <<>>, player.id, round_data.round, round_data.date,
                     round_data.opp_id, round_data.color, round_data.score,
                     round_data.forfeit)]

RECURSIVE flatten_players(_, _, _)
flatten_players(tc, ps, k) ==
    IF k > Len(ps) THEN <<>>
    ELSE player_rows(tc, ps[k]) \o flatten_players(tc, ps, k + 1)

flatten_result(result) ==
    IF ~result.success
    THEN <<FlatRow(result.tournament_code, FALSE, result.error, <<>>, NoneNum, <<>>,
                   <<>>, "", NoneNum, "")>>
    ELSE flatten_players(result.tournament_code, result.players, 1)

----------------------------------------------------------------------------
(* flatten_to_games *)

\* the distinct truthy round_date values of the successful rows (a Python set)
round_date_set(fl) ==
    {fl[i].round_date : i \in {j \in 1..Len(fl) : fl[j].success}} \ {<<>>, NoneStr}

\* list(set): the elements in any order, the iteration order of a set of strings
\* changes from run to run
ListsOf(S) ==
    {l \in [1..Cardinality(S) -> S] : \A i, j \in 1..Cardinality(S) : l[i] = l[j] => i = j}

\* mutant of white_score_of: a black row's score is taken over as it stands
white_score_of_not_inverted(color, forfeit, score) ==
    IF forfeit # ""
    THEN IF color = "white" THEN (IF forfeit = "+" THEN 2 ELSE 0)
         ELSE (IF forfeit = "+" THEN 0 ELSE 2)
    ELSE score

\* mutant of white_score_of: a score, when there is one, goes before the forfeit
white_score_of_score_first(color, forfeit, score) ==
    IF score # -1
    THEN IF color = "white" THEN score ELSE 2 - score
    ELSE IF color = "white" THEN (IF forfeit = "+" THEN 2 ELSE 0)
         ELSE (IF forfeit = "+" THEN 0 ELSE 2)

\* white player's score of one row: a forfeit decides, else the score
white_score_of(color, forfeit, score) ==
    IF forfeit # ""
    THEN IF color = "white" THEN (IF forfeit = "+" THEN 2 ELSE 0)
         ELSE (IF forfeit = "+" THEN 0 ELSE 2)
    ELSE IF color = "white" THEN score ELSE 2 - score

\* mutant of game_step: the key is not looked up in seen
game_step_no_dedup(acc, row, fmt) ==
    IF ~row.success \/ row.round = NoneNum THEN acc
    ELSE IF Falsy(row.player_id) \/ Falsy(row.opp_id) THEN acc
    ELSE IF row.color \notin {"white", "black"} THEN acc
    ELSE IF row.forfeit = "" /\ row.score = NoneNum THEN acc
    ELSE LET white_id == IF row.color = "white" THEN row.player_id ELSE row.opp_id
             black_id == IF row.color = "white" THEN row.opp_id ELSE row.player_id
         IN [acc EXCEPT !.games = Append(@,
                [tournament_code |-> row.tournament_code,
                 round |-> row.round,
                 date |-> IF Falsy(row.round_date) THEN NoneIso
                          ELSE parse_date_to_iso(row.round_date, fmt),
                 white_id |-> white_id,
                 black_id |-> black_id,
                 white_score |-> white_score_of(row.color, row.forfeit, row.score),
                 forfeit |-> row.forfeit # ""])]

\* mutant of game_step: a row whose colour is not white counts as black's record
game_step_unknown_color_as_black(acc, row, fmt) ==
    IF ~row.success \/ row.round = NoneNum THEN acc
    ELSE IF Falsy(row.player_id) \/ Falsy(row.opp_id) THEN acc
    ELSE LET white_id == IF row.color = "white" THEN row.player_id ELSE row.opp_id
             black_id == IF row.color = "white" THEN row.opp_id ELSE row.player_id
             key == <<row.tournament_code, row.round, white_id, black_id>>
         IN IF key \in acc.seen THEN acc
            ELSE IF row.forfeit = "" /\ row.score = NoneNum
            THEN [acc EXCEPT !.seen = @ \cup {key}]
            ELSE [seen |-> acc.seen \cup {key},
                  games |-> Append(acc.games,
                      [tournament_code |-> row.tournament_code,
                       round |-> row.round,
                       date |-> IF Falsy(row.round_date) THEN NoneIso
                                ELSE parse_date_to_iso(row.round_date, fmt),
                       white_id |-> white_id,
                       black_id |-> black_id,
                       white_score |-> white_score_of(row.color, row.forfeit, row.score),
                       forfeit |-> row.forfeit # ""])]

\* mutant of game_step: a row whose date does not convert emits no game and
\* leaves its key free
game_step_skips_undated(acc, row, fmt) ==
    IF ~row.success \/ row.round = NoneNum THEN acc
    ELSE IF Falsy(row.player_id) \/ Falsy(row.opp_id) THEN acc
    ELSE IF row.color \notin {"white", "black"} THEN acc
    ELSE LET white_id == IF row.color = "white" THEN row.player_id ELSE row.opp_id
             black_id == IF row.color = "white" THEN row.opp_id ELSE row.player_id
             key == <<row.tournament_code, row.round, white_id, black_id>>
             date == IF Falsy(row.round_date) THEN NoneIso
                     ELSE parse_date_to_iso(row.round_date, fmt)
         IN IF key \in acc.seen \/ date = NoneIso THEN acc
            ELSE IF row.forfeit = "" /\ row.score = NoneNum
            THEN [acc EXCEPT !.seen = @ \cup {key}]
            ELSE [seen |-> acc.seen \cup {key},
                  games |-> Append(acc.games,
                      [tournament_code |-> row.tournament_code,
                       round |-> row.round,
                       date |-> date,
                       white_id |-> white_id,
                       black_id |-> black_id,
                       white_score |-> white_score_of(row.color, row.forfeit, row.score),
                       forfeit |-> row.forfeit # ""])]

\* one iteration of `for row in flattened`; acc holds the locals games and seen
game_step(acc, row, fmt) ==
    IF ~row.success \/ row.round = NoneNum THEN acc
    ELSE IF Falsy(row.player_id) \/ Falsy(row.opp_id) THEN acc
    ELSE IF row.color \notin {"white", "black"} THEN acc
    ELSE LET white_id == IF row.color = "white" THEN row.player_id ELSE row.opp_id
             black_id == IF row.color = "white" THEN row.opp_id ELSE row.player_id
             key == <<row.tournament_code, row.round, white_id, black_id>>
         IN IF key \in acc.seen THEN acc
            ELSE IF row.forfeit = "" /\ row.score = NoneNum
            THEN \* seen.add(key) came first: the key stays taken, nothing is emitted
                 [acc EXCEPT !.seen = @ \cup {key}]
            ELSE [seen |-> acc.seen \cup {key},
                  games |-> Append(acc.games,
                      [tournament_code |-> row.tournament_code,
                       round |-> row.round,
                       date |-> IF Falsy(row.round_date) THEN NoneIso
                                ELSE parse_date_to_iso(row.round_date, fmt),
                       white_id |-> white_id,
                       black_id |-> black_id,
                       white_score |-> white_score_of(row.color, row.forfeit, row.score),
                       forfeit |-> row.forfeit # ""])]

RECURSIVE games_loop(_, _, _, _)
games_loop(k, acc, fl, fmt) ==
    IF k > Len(fl) THEN acc
    ELSE games_loop(k + 1, game_step(acc, fl[k], fmt), fl, fmt)

\* the games list returned for the inferred format fmt
flatten_to_games(fl, fmt) ==
    games_loop(1, [seen |-> {}, games |-> <<>>], fl, fmt).games

----------------------------------------------------------------------------
(* Inputs of the date functions *)

TwoDigits == {<<"0", "1">>, <<"2", "4">>, <<"2", "5">>, <<"3", "1">>}
FourDigits == {<<"2", "0", "2", "4">>}
Months == {<<"1", "1">>}

RawDates ==
    {a \o <<"/">> \o b \o <<"/">> \o c :
        a \in TwoDigits, b \in Months, c \in TwoDigits \cup FourDigits}
    \cup {<<>>, <<"n", "/", "a">>}

StartIsos == {NoneIso, <<2024, 11, 1>>, <<2024, 11, 26>>}
EndIsos == {NoneIso, <<2024, 11, 30>>, <<2031, 11, 30>>}

SeqsUpTo(S, n) == UNION {[1..k -> S] : k \in 0..n}

----------------------------------------------------------------------------
(* Specification of infer_date_format: any list of raw dates, any bounds *)

InitDates ==
    /\ pc = "call"
    /\ date_strings \in SeqsUpTo(RawDates, MaxDates)
    /\ start_iso \in StartIsos
    /\ end_iso \in EndIsos
    /\ date_format = ""
    /\ flattened = <<>>
    /\ games = <<>>
    /\ table = FALSE
    /\ rows = <<>>
    /\ anchor_to_id = EmptyMap
    /\ players = <<>>
    /\ error = <<>>
    /\ FetchIdle
    /\ MainIdle
    /\ CallIdle

InferDateFormat ==
    /\ pc = "call"
    /\ date_format' = infer_date_format(date_strings, start_iso, end_iso)
    /\ pc' = "done"
    /\ UNCHANGED <<date_strings, start_iso, end_iso, flattened, games,
                   table, rows, anchor_to_id, players, error, fetchVars, mainVars, callVars>>

NextDates == InferDateFormat

SpecDates == InitDates /\ [][NextDates]_vars

----------------------------------------------------------------------------
(* Inputs of flatten_to_games: rows as flatten_result writes them *)

Id100 == <<"1", "0", "0">>
Id101 == <<"1", "0", "1">>

Date_24_11_25 == <<"2", "4", "/", "1", "1", "/", "2", "5">>
Date_25_11_24 == <<"2", "5", "/", "1", "1", "/", "2", "4">>
Date_25_11_2024 == <<"2", "5", "/", "1", "1", "/", "2", "0", "2", "4">>

RowOf(tc, pid, opp, rnd, color, score, forfeit, date) ==
    [tournament_code |-> tc, success |-> TRUE, error |-> <<>>,
     player_id |-> pid, opp_id |-> opp,
     round |-> rnd, round_date |-> date, color |-> color, score |-> score,
     forfeit |-> forfeit]

Row(pid, opp, rnd, color, score, forfeit, date) ==
    [tournament_code |-> "TC", success |-> TRUE, error |-> <<>>,
     player_id |-> pid, opp_id |-> opp,
     round |-> rnd, round_date |-> date, color |-> color, score |-> score,
     forfeit |-> forfeit]

\* the single row of a failed result
FailedRow ==
    [tournament_code |-> "TC", success |-> FALSE, error |-> <<"no data found">>,
     player_id |-> <<>>, opp_id |-> <<>>,
     round |-> NoneNum, round_date |-> <<>>, color |-> "", score |-> NoneNum,
     forfeit |-> ""]

\* the single row of a player without rounds
NoRoundsRow == Row(Id100, <<>>, NoneNum, "", NoneNum, "", <<>>)

\* <<player_id, opp_id, color>>: both sides of the game 100 (white) - 101 (black),
\* and 101's side of the return game
Perspectives ==
    {<<Id100, Id101, "white">>, <<Id101, Id100, "black">>, <<Id101, Id100, "white">>}

\* <<score, forfeit>>
Results ==
    {<<NoneNum, "">>, <<0, "">>, <<1, "">>, <<2, "">>,
     <<NoneNum, "+">>, <<NoneNum, "-">>, <<0, "+">>, <<2, "-">>}

ResultRows ==
    {Row(p[1], p[2], 1, p[3], r[1], r[2], Date_24_11_25) : p \in Perspectives, r \in Results}
    \cup {Row(p[1], p[2], 2, p[3], 1, "", Date_24_11_25) : p \in Perspectives}
    \cup {Row(Id100, <<>>, 1, "white", 2, "", Date_24_11_25),
          Row(Id100, Id101, 1, "", 2, "", Date_24_11_25),
          RowOf("TD", Id100, Id101, 1, "white", 2, "", Date_24_11_25),
          RowOf("TD", Id101, Id100, 1, "black", 0, "", Date_24_11_25),
          NoRoundsRow, FailedRow}

RowDates == {Date_24_11_25, Date_25_11_24, Date_25_11_2024, <<>>, NoneStr}

DatedRows ==
    {Row(Id100, Id101, rnd, "white", 2, "", d) : rnd \in {1, 2}, d \in RowDates}
    \cup {Row(Id101, Id100, rnd, "black", 0, "", d) : rnd \in {1, 2}, d \in RowDates}
    \cup {FailedRow}

----------------------------------------------------------------------------
(* Specifications of flatten_to_games *)

\* start_iso, end_iso hold details_map.get(tournament_code, (None, None))
InitGames ==
    /\ pc = "call"
    /\ flattened \in SeqsUpTo(ResultRows, MaxRows)
    /\ start_iso = NoneIso
    /\ end_iso = NoneIso
    /\ date_strings = <<>>
    /\ date_format = ""
    /\ games = <<>>
    /\ table = FALSE
    /\ rows = <<>>
    /\ anchor_to_id = EmptyMap
    /\ players = <<>>
    /\ error = <<>>
    /\ FetchIdle
    /\ MainIdle
    /\ CallIdle

InitGameDates ==
    /\ pc = "call"
    /\ flattened \in SeqsUpTo(DatedRows, MaxRows)
    /\ \/ start_iso = NoneIso /\ end_iso = NoneIso
       \/ start_iso = <<2024, 11, 1>> /\ end_iso = <<2024, 11, 30>>
    /\ date_strings = <<>>
    /\ date_format = ""
    /\ games = <<>>
    /\ table = FALSE
    /\ rows = <<>>
    /\ anchor_to_id = EmptyMap
    /\ players = <<>>
    /\ error = <<>>
    /\ FetchIdle
    /\ MainIdle
    /\ CallIdle

\* one call flatten_to_games(flattened, tournament_code, details_map);
\* date_strings keeps the local date_strs
FlattenToGames ==
    /\ pc = "call"
    /\ \E l \in ListsOf(round_date_set(flattened)) :
          /\ date_strings' = l
          /\ date_format' = infer_date_format(l, start_iso, end_iso)
          /\ games' = flatten_to_games(flattened, date_format')
    /\ pc' = "done"
    /\ UNCHANGED <<start_iso, end_iso, flattened,
                   table, rows, anchor_to_id, players, error, fetchVars, mainVars, callVars>>

NextGames == FlattenToGames

SpecGames == InitGames /\ [][NextGames]_vars

SpecGameDates == InitGameDates /\ [][NextGames]_vars

\* raw dates of round rows: ambiguous ones, ones that are a date in one format
\* only, one with a four-digit year and one that is no date
RowRawDates ==
    {Date_24_11_25, Date_25_11_24, Date_25_11_2024,
     <<"0", "1", "/", "1", "1", "/", "2", "4">>,
     <<"2", "4", "/", "1", "1", "/", "3", "1">>,
     <<"n", "/", "a">>}

\* flatten_to_games on the rows of one player whose rounds carry any raw dates,
\* with any bounds from the tournament details
InitDateRows ==
    /\ pc = "call"
    /\ \E l \in SeqsUpTo(RowRawDates, MaxDates) :
          flattened = [k \in 1..Len(l) |-> Row(Id100, Id101, k, "white", 2, "", l[k])]
    /\ \/ start_iso = NoneIso /\ end_iso = NoneIso
       \/ start_iso = <<2024, 11, 26>> /\ end_iso = <<2024, 11, 30>>
    /\ date_strings = <<>>
    /\ date_format = ""
    /\ games = <<>>
    /\ table = FALSE
    /\ rows = <<>>
    /\ anchor_to_id = EmptyMap
    /\ players = <<>>
    /\ error = <<>>
    /\ FetchIdle
    /\ MainIdle
    /\ CallIdle

SpecDateRows == InitDateRows /\ [][NextGames]_vars

----------------------------------------------------------------------------
(* Inputs of the table walk: rows of a report table *)

\* <a name=...>text</a>
NamedLink(name, text) == [name |-> name, href |-> NoneStr, text |-> text]

\* <a href=...>text</a>
HrefLink(href, text) == [name |-> NoneStr, href |-> href, text |-> text]

TableRow(ncells, first, links, text, white_note, black_note, score_text) ==
    [ncells |-> ncells, first |-> first, links |-> links, text |-> text,
     white_note |-> white_note, black_note |-> black_note, score_text |-> score_text]

Round1 == <<"1", " ", "2", "4", "/", "1", "1", "/", "2", "5">>

\* summary rows of players 100 (anchor 1) and 101 (anchor 2)
Player1Row == TableRow(7, Id100, <<NamedLink(<<"1">>, "A")>>, "", FALSE, FALSE, <<"1">>)
Player2Row == TableRow(7, Id101, <<NamedLink(<<"2">>, "B")>>, "", FALSE, FALSE, <<"0">>)

\* a spacer row with a single cell
SpacerRow == TableRow(1, <<>>, <<>>, "", FALSE, FALSE, <<>>)

\* the header row above the round rows
HeaderRow == TableRow(7, <<"R", "o", "u", "n", "d">>, <<>>, "Opponent", FALSE, FALSE,
                      <<"R", "e", "s">>)

\* round 1: white against the player of anchor 2, won
WhiteWinRow == TableRow(7, Round1, <<HrefLink(<<"#", "2">>, "B")>>, "", TRUE, FALSE,
                        <<"1", ".", "0">>)

\* round 1: black against the player of anchor 1, lost
BlackLossRow == TableRow(7, Round1, <<HrefLink(<<"#", "1">>, "A")>>, "", FALSE, TRUE,
                         <<"0">>)

\* round 2: a bye; the opponent cell holds a link without text
ByeRow == TableRow(7, <<"2">>, <<HrefLink(<<"#", "2">>, "")>>, "", TRUE, FALSE, <<"1">>)

\* round 3: won by forfeit, no opponent shown
ForfeitRow == TableRow(7, <<"3">>, <<>>, "", FALSE, FALSE, <<"+">>)

\* a row of two cells with a numeric first cell that carries the anchor 2
ShortAnchorRow == TableRow(2, <<"7">>, <<NamedLink(<<"2">>, "")>>, "", FALSE, FALSE, <<>>)

\* round 1: a draw against a player whose anchor 9 is on no row
UnlinkedDrawRow == TableRow(7, Round1, <<HrefLink(<<"#", "9">>, "C")>>, "", FALSE, TRUE,
                            <<"0", ".", "5">>)

TableRows ==
    {Player1Row, Player2Row, SpacerRow, HeaderRow, WhiteWinRow, BlackLossRow,
     ByeRow, ForfeitRow, ShortAnchorRow, UnlinkedDrawRow}

----------------------------------------------------------------------------
(* Specification of the report pipeline: the parse of a fetched document, then *)
(* results_to_games_dataframe on its result                                    *)

InitWalk ==
    /\ pc = "fetched"
    /\ \/ table = FALSE /\ rows = <<>>
       \/ table = TRUE /\ rows \in SeqsUpTo(TableRows, MaxTableRows)
    /\ anchor_to_id = EmptyMap
    /\ players = <<>>
    /\ error = <<>>
    /\ FetchIdle
    /\ MainIdle
    /\ CallIdle
    /\ flattened = <<>>
    /\ start_iso = NoneIso
    /\ end_iso = NoneIso
    /\ date_strings = <<>>
    /\ date_format = ""
    /\ games = <<>>

\* mutant of parse_error: a walk without players is returned as a success
parse_error_empty_success(has_table, ps) ==
    IF ~has_table THEN <<"no data found">> ELSE <<>>

\* the error string of the parse: <<>> stands for None, the report is returned
parse_error(has_table, ps) ==
    IF ~has_table THEN <<"no data found">>
    ELSE IF ps = <<>> THEN <<"no players found">>
    ELSE <<>>

\* fetch_tournament_report from the parsed document on
ParseReport ==
    /\ pc = "fetched"
    /\ IF ~table
       THEN /\ error' = parse_error(FALSE, players)
            /\ UNCHANGED <<anchor_to_id, players>>
       ELSE /\ anchor_to_id' = anchor_pass(1, EmptyMap, rows)
            /\ players' = walk(1, <<>>, rows)
            /\ error' = parse_error(TRUE, players')
    /\ pc' = "parsed"
    /\ UNCHANGED <<date_strings, start_iso, end_iso, date_format, flattened, games,
                   table, rows, fetchVars, mainVars, callVars>>

\* the result the caller builds from the report, handed to results_to_games_dataframe
ResultsToGames ==
    /\ pc = "parsed"
    /\ flattened' = flatten_result([tournament_code |-> "TC", success |-> error = <<>>,
                                    error |-> error, players |-> players])
    /\ \E l \in ListsOf(round_date_set(flattened')) :
          /\ date_strings' = l
          /\ date_format' = infer_date_format(l, start_iso, end_iso)
          /\ games' = flatten_to_games(flattened', date_format')
    /\ pc' = "done"
    /\ UNCHANGED <<start_iso, end_iso, table, rows, anchor_to_id, players, error,
                   fetchVars, mainVars, callVars>>

NextWalk == ParseReport \/ ResultsToGames

SpecWalk == InitWalk /\ [][NextWalk]_vars

----------------------------------------------------------------------------
(* Inputs of the score functions: texts of a score cell *)

\* longest score text made of single characters
MaxScoreLen == 4

ScoreChars == {"0", "1", "2", "5", ".", "+", "-", " "}

ForfeitWord == <<"f", "o", "r", "f", "e", "i", "t">>

ForfeitWords ==
    {ForfeitWord,
     <<"F", "o", "r", "f", "e", "i", "t">>,
     <<"F", "O", "R", "F", "E", "I", "T">>}

\* what stands before or behind the word in a forfeit text
Affixes ==
    {<<>>, <<" ">>, <<"+">>, <<"-">>, <<" ", "+">>, <<" ", "-">>,
     <<" ", "(", "+", ")">>, <<" ", "(", "-", ")">>, <<"+", "-">>, <<"1">>}

ScoreTexts ==
    SeqsUpTo(ScoreChars, MaxScoreLen)
    \cup {a \o w \o b : a \in Affixes, w \in ForfeitWords, b \in Affixes}
    \cup {NoneStr}

----------------------------------------------------------------------------
(* Specification of the score cell: parse_score and extract_forfeit_indicator *)
(* on one text, as the round loop calls them                                  *)

InitScoreCell ==
    /\ pc = "call"
    /\ arg \in ScoreTexts
    /\ ret = <<>>
    /\ FetchIdle
    /\ MainIdle
    /\ table = FALSE
    /\ rows = <<>>
    /\ anchor_to_id = EmptyMap
    /\ players = <<>>
    /\ error = <<>>
    /\ flattened = <<>>
    /\ start_iso = NoneIso
    /\ end_iso = NoneIso
    /\ date_strings = <<>>
    /\ date_format = ""
    /\ games = <<>>

ParseScoreCell ==
    /\ pc = "call"
    /\ ret' = [score |-> parse_score(arg), forfeit |-> extract_forfeit_indicator(arg)]
    /\ pc' = "done"
    /\ UNCHANGED <<arg, date_strings, start_iso, end_iso, date_format, flattened, games,
                   table, rows, anchor_to_id, players, error, fetchVars, mainVars>>

NextScoreCell == ParseScoreCell

SpecScoreCell == InitScoreCell /\ [][NextScoreCell]_vars

----------------------------------------------------------------------------
(* Specification of the round rows of one player: a table of a summary row, one *)
(* round row with any score text, and the summary row of the opponent           *)

\* cell 1 of the round row: the opponent as a link, or nothing
OpponentCells ==
    {[links |-> <<HrefLink(<<"#", "2">>, "B")>>, text |-> ""],
     [links |-> <<>>, text |-> ""]}

InitRounds ==
    /\ pc = "fetched"
    /\ table = TRUE
    /\ \E c \in OpponentCells : \E t \in ScoreTexts \ {NoneStr} :
          rows = <<Player1Row,
                   TableRow(7, Round1, c.links, c.text, TRUE, FALSE, strip(t)),
                   SpacerRow, Player2Row>>
    /\ anchor_to_id = EmptyMap
    /\ players = <<>>
    /\ error = <<>>
    /\ flattened = <<>>
    /\ start_iso = NoneIso
    /\ end_iso = NoneIso
    /\ date_strings = <<>>
    /\ date_format = ""
    /\ games = <<>>
    /\ FetchIdle
    /\ MainIdle
    /\ CallIdle

SpecRounds == InitRounds /\ [][NextWalk]_vars

----------------------------------------------------------------------------
(* Specification of the fetch of one tournament: the attempt loop of           *)
(* fetch_tournament_report inside the retry passes of main.  An error string   *)
(* is the sequence of its parts, a prefix the code writes or the lower-cased   *)
(* message of an exception; `pattern in error` looks at each part.             *)

\* passes after the first one (args.max_retries)
MaxRetryPasses == 1

\* attempts of one fetch_tournament_report call
max_retries == 3

\* the patterns of a connection error that is worth another attempt
network_error_patterns ==
    {"eof", "connection reset", "connection aborted", "remotedisconnected",
     "remote end closed", "broken pipe"}

\* messages of the exceptions a request raises
Messages ==
    {"eof", "connection reset", "connection refused", "read timed out",
     "connect timeout=45"}

\* any(pattern in error_str for pattern in [...])
has_network_pattern(err) == \E k \in 1..Len(err) : err[k] \in network_error_patterns

\* "timeout" in error_lower
has_timeout(err) == \E k \in 1..Len(err) : err[k] \in {"timeout:", "connect timeout=45"}

\* what one HTTP attempt can end with
Outcomes ==
    {[kind |-> k, msg |-> m] :
        k \in {"Timeout", "ConnectionError", "RequestException", "Exception"},
        m \in Messages}
    \cup {[kind |-> "status", msg |-> "500"], [kind |-> "status", msg |-> "200"]}

\* the documents a 200 response carries: <<has table, rows>>
Documents ==
    {<<FALSE, <<>>>>, <<TRUE, <<>>>>, <<TRUE, <<SpacerRow, HeaderRow>>>>,
     <<TRUE, <<Player1Row>>>>, <<TRUE, <<Player1Row, WhiteWinRow>>>>}

\* mutant of continues: every failed attempt goes on to the next one
continues_after_any_error(o) == ~(o.kind = "status" /\ o.msg = "200")

\* the attempt goes on to the next one, with this last_error
continues(o) ==
    \/ o.kind = "Timeout"
    \/ o.kind = "Exception"
    \/ o.kind \in {"ConnectionError", "RequestException"}
          /\ has_network_pattern(<<o.msg>>)
    \/ o.kind = "status" /\ o.msg # "200"

\* last_error of an attempt that raised or got a status other than 200
attempt_error(o) ==
    CASE o.kind = "Timeout" -> <<"timeout:", o.msg>>
      [] o.kind = "ConnectionError" ->
            IF has_network_pattern(<<o.msg>>) THEN <<"network error:", o.msg>>
            ELSE <<"connection error:", o.msg>>
      [] o.kind = "RequestException" -> <<"network error:", o.msg>>
      [] o.kind = "Exception" -> <<"parse error:", o.msg>>
      [] OTHER -> <<"HTTP", o.msg>>

\* mutant of should_requeue: every failed tournament is queued again
should_requeue_any_error(err, pass) == err # <<>> /\ pass < MaxRetryPasses

\* mutant of should_requeue: the last pass queues a tournament too
should_requeue_in_last_pass(err, pass) ==
    /\ err # <<>>
    /\ has_network_pattern(err) \/ has_timeout(err)

\* main: the failed tournament is appended to pass_failed
should_requeue(err, pass) ==
    /\ err # <<>>
    /\ has_network_pattern(err) \/ has_timeout(err)
    /\ pass < MaxRetryPasses

InitFetch ==
    /\ pc = "queued"
    /\ FetchIdle
    /\ MainIdle
    /\ CallIdle
    /\ table = FALSE
    /\ rows = <<>>
    /\ anchor_to_id = EmptyMap
    /\ players = <<>>
    /\ error = <<>>
    /\ flattened = <<>>
    /\ start_iso = NoneIso
    /\ end_iso = NoneIso
    /\ date_strings = <<>>
    /\ date_format = ""
    /\ games = <<>>

\* main calls fetch_tournament_report for the tournament
CallFetch ==
    /\ pc = "queued"
    /\ pc' = "attempting"
    /\ attempt' = 0
    /\ last_error' = <<>>
    /\ pass_failed' = <<>>
    /\ UNCHANGED <<pass_num, all_results, table, rows, anchor_to_id, players, error,
                   date_strings, start_iso, end_iso, date_format, flattened, games,
                   mainVars, callVars>>

\* one pass of the attempt loop that does not get a 200 response
FailedAttempt ==
    /\ pc = "attempting"
    /\ attempt < max_retries
    /\ \E o \in Outcomes :
          /\ ~(o.kind = "status" /\ o.msg = "200")
          /\ attempt' = attempt + 1
          /\ IF continues(o)
             THEN /\ last_error' = attempt_error(o)
                  /\ UNCHANGED <<pc, error, ret>>
             ELSE /\ last_error' = attempt_error(o)
                  /\ error' = attempt_error(o)
                  /\ ret' = [report |-> FALSE, error |-> error', attempts |-> attempt']
                  /\ pc' = "returned"
    /\ UNCHANGED <<pass_num, pass_failed, all_results, table, rows, anchor_to_id,
                   players, date_strings, start_iso, end_iso, date_format, flattened,
                   games, arg, mainVars>>

\* one pass of the attempt loop that gets a 200 response and parses the document
ParsedAttempt ==
    /\ pc = "attempting"
    /\ attempt < max_retries
    /\ \E d \in Documents :
          /\ table' = d[1]
          /\ rows' = d[2]
          /\ anchor_to_id' = IF d[1] THEN anchor_pass(1, EmptyMap, d[2]) ELSE EmptyMap
          /\ players' = IF d[1] THEN walk(1, <<>>, d[2]) ELSE <<>>
          /\ error' = parse_error(d[1], players')
    /\ attempt' = attempt + 1
    /\ ret' = [report |-> error' = <<>>, error |-> error', attempts |-> attempt']
    /\ pc' = "returned"
    /\ UNCHANGED <<last_error, pass_num, pass_failed, all_results, date_strings,
                   start_iso, end_iso, date_format, flattened, games, arg, mainVars>>

\* the attempt loop has run out
MaxRetriesExceeded ==
    /\ pc = "attempting"
    /\ attempt = max_retries
    /\ error' = <<"max retries exceeded:">> \o last_error
    /\ ret' = [report |-> FALSE, error |-> error', attempts |-> attempt]
    /\ pc' = "returned"
    /\ UNCHANGED <<attempt, last_error, pass_num, pass_failed, all_results, table, rows,
                   anchor_to_id, players, date_strings, start_iso, end_iso,
                   date_format, flattened, games, arg, mainVars>>

\* main takes the return value: the result is appended, a failed tournament is
\* queued for the next pass or left as it is
RecordResult ==
    /\ pc = "returned"
    /\ all_results' = Append(all_results,
                             [tournament_code |-> "TC", success |-> error = <<>>,
                              error |-> error])
    /\ pass_failed' = IF should_requeue(error, pass_num)
                      THEN Append(pass_failed, "TC")
                      ELSE pass_failed
    /\ IF pass_failed' # <<>>
       THEN pc' = "queued" /\ pass_num' = pass_num + 1
       ELSE pc' = "finished" /\ UNCHANGED pass_num
    /\ UNCHANGED <<attempt, last_error, table, rows, anchor_to_id, players, error,
                   date_strings, start_iso, end_iso, date_format, flattened, games,
                   mainVars, callVars>>

NextFetch ==
    CallFetch \/ FailedAttempt \/ ParsedAttempt \/ MaxRetriesExceeded \/ RecordResult

SpecFetch == InitFetch /\ [][NextFetch]_vars

----------------------------------------------------------------------------
(* Specification of main's retry passes over the list of tournament codes.     *)
(* fetch_tournament_report is one step here: it returns one of the results the *)
(* attempt loop above can give.  arg holds the command line: the codes read    *)
(* from the input and --checkpoint; --max-retries is MaxRetryPasses.            *)

\* the tournament codes read from the input (main exits on an empty list)
CodeLists == {<<"T1">>, <<"T1", "T2">>, <<"T2", "T1">>, <<"T1", "T1">>}

\* the values of --checkpoint
CheckpointArgs == {0, 1, 2}

\* the rows of the report document of a tournament that parses: two players, one game
ReportRows == <<Player1Row, WhiteWinRow, SpacerRow, Player2Row>>

\* the error strings fetch_tournament_report returns, <<>> together with a report
FetchReturns ==
    {<<>>,
     <<"no data found">>,
     <<"connection error:", "connection refused">>,
     <<"max retries exceeded:", "timeout:", "read timed out">>,
     <<"max retries exceeded:", "network error:", "eof">>,
     <<"max retries exceeded:", "HTTP", "500">>}

\* the result main builds from the return value; pass is not in the code's
\* dict, it records the pass that made the fetch
result_of(tournament_code, err, pass) ==
    [tournament_code |-> tournament_code,
     success |-> err = <<>>,
     error |-> err,
     players |-> IF err = <<>> THEN walk(1, <<>>, ReportRows) ELSE <<>>,
     pass |-> pass]

\* the results list handed to save_checkpoint: all_results before the append
checkpoint_results(results, result) == results

\* the games of one result; the raw dates of a report of ReportRows are one
\* string, so the set of date strings has a single order
games_of_result(result) ==
    LET fl == flatten_result(result)
        l == CHOOSE l \in ListsOf(round_date_set(fl)) : TRUE
    IN flatten_to_games(fl, infer_date_format(l, NoneIso, NoneIso))

\* results_to_games_dataframe: the games of all results, in order
RECURSIVE results_to_games(_)
results_to_games(results) ==
    IF results = <<>> THEN <<>>
    ELSE games_of_result(Head(results)) \o results_to_games(Tail(results))

InitMain ==
    /\ pc = "loop"
    /\ arg \in [tournament_codes : CodeLists, checkpoint : CheckpointArgs]
    /\ current_tournaments = arg.tournament_codes
    /\ next_idx = 0
    /\ success_count = 0
    /\ checkpoint = <<>>
    /\ FetchIdle
    /\ ret = <<>>
    /\ table = FALSE
    /\ rows = <<>>
    /\ anchor_to_id = EmptyMap
    /\ players = <<>>
    /\ error = <<>>
    /\ flattened = <<>>
    /\ start_iso = NoneIso
    /\ end_iso = NoneIso
    /\ date_strings = <<>>
    /\ date_format = ""
    /\ games = <<>>

\* `for pass_num in range(args.max_retries + 1)` enters a pass
StartPass ==
    /\ pc = "loop"
    /\ pass_num <= MaxRetryPasses
    /\ current_tournaments # <<>>
    /\ pass_failed' = <<>>
    /\ next_idx' = 1
    /\ pc' = "pass"
    /\ UNCHANGED <<attempt, last_error, pass_num, all_results, current_tournaments,
                   success_count, checkpoint, error, table, rows, anchor_to_id,
                   players, date_strings, start_iso, end_iso, date_format, flattened,
                   games, callVars>>

\* the range is used up, or `if not current_tournaments: break`
EndLoop ==
    /\ pc = "loop"
    /\ pass_num > MaxRetryPasses \/ current_tournaments = <<>>
    /\ pc' = "saving"
    /\ UNCHANGED <<fetchVars, mainVars, error, table, rows, anchor_to_id, players,
                   date_strings, start_iso, end_iso, date_format, flattened, games,
                   callVars>>

\* one iteration of `for tournament_code in current_tournaments`
FetchTournament ==
    /\ pc = "pass"
    /\ next_idx <= Len(current_tournaments)
    /\ \E err \in FetchReturns :
          LET tournament_code == current_tournaments[next_idx]
              result == result_of(tournament_code, err, pass_num)
          IN /\ error' = err
             /\ IF err # <<>>
                THEN /\ pass_failed' = IF should_requeue(err, pass_num)
                                       THEN Append(pass_failed, tournament_code)
                                       ELSE pass_failed
                     /\ UNCHANGED <<success_count, checkpoint>>
                ELSE /\ success_count' = success_count + 1
                     /\ checkpoint' =
                           IF arg.checkpoint > 0 /\ success_count' % arg.checkpoint = 0
                           THEN Append(checkpoint, checkpoint_results(all_results, result))
                           ELSE checkpoint
                     /\ UNCHANGED pass_failed
             /\ all_results' = Append(all_results, result)
    /\ next_idx' = next_idx + 1
    /\ UNCHANGED <<attempt, last_error, pass_num, current_tournaments, pc, table, rows,
                   anchor_to_id, players, date_strings, start_iso, end_iso,
                   date_format, flattened, games, callVars>>

\* mutant of EndPass: the next pass takes the whole list again
EndPass_keeps_list ==
    /\ pc = "pass"
    /\ next_idx > Len(current_tournaments)
    /\ pass_num' = pass_num + 1
    /\ pc' = "loop"
    /\ UNCHANGED <<attempt, last_error, pass_failed, all_results, next_idx,
                   current_tournaments, success_count, checkpoint, error, table, rows,
                   anchor_to_id, players, date_strings, start_iso, end_iso,
                   date_format, flattened, games, callVars>>

\* the inner loop is through: current_tournaments = pass_failed
EndPass ==
    /\ pc = "pass"
    /\ next_idx > Len(current_tournaments)
    /\ current_tournaments' = pass_failed
    /\ pass_num' = pass_num + 1
    /\ pc' = "loop"
    /\ UNCHANGED <<attempt, last_error, pass_failed, all_results, next_idx,
                   success_count, checkpoint, error, table, rows, anchor_to_id,
                   players, date_strings, start_iso, end_iso, date_format, flattened,
                   games, callVars>>

\* save_games_parquet(all_results, parquet_path): the final games output
SaveGames ==
    /\ pc = "saving"
    /\ games' = results_to_games(all_results)
    /\ pc' = "finished"
    /\ UNCHANGED <<fetchVars, mainVars, error, table, rows, anchor_to_id, players,
                   date_strings, start_iso, end_iso, date_format, flattened, callVars>>

NextMain == StartPass \/ EndLoop \/ FetchTournament \/ EndPass \/ SaveGames

SpecMain == InitMain /\ [][NextMain]_vars

----------------------------------------------------------------------------
(* Claims on infer_date_format (checked under SpecDates) *)

Other(fmt) == IF fmt = "yy/mm/dd" THEN "dd/mm/yy" ELSE "yy/mm/dd"

\* the raw dates handed to the inference
ObservedDates == {date_strings[i] : i \in 1..Len(date_strings)} \ {<<>>, NoneStr}

BoundsKnown == bound_dt(start_iso) # 0 /\ bound_dt(end_iso) # 0

\* an ISO date is a calendar date inside [start, end]
InsideBounds(iso) ==
    /\ strptime(iso) # 0
    /\ bound_dt(start_iso) <= strptime(iso)
    /\ strptime(iso) <= bound_dt(end_iso)

\* fmt converts every observed date, and every one of them lands inside the bounds
PlacesAllInside(fmt) ==
    /\ ObservedDates # {}
    /\ \A s \in ObservedDates : InsideBounds(_parse_round_date_with_format(s, fmt))

\* fmt converts none of the observed dates to a calendar date
ParsesNone(fmt) ==
    \A s \in ObservedDates : strptime(_parse_round_date_with_format(s, fmt)) = 0

\* fmt converts some observed date to a calendar date outside the bounds
PlacesOneOutside(fmt) ==
    \E s \in ObservedDates :
        /\ strptime(_parse_round_date_with_format(s, fmt)) # 0
        /\ ~InsideBounds(_parse_round_date_with_format(s, fmt))

SelectedAndInside(fmt) ==
    /\ date_format = fmt
    /\ \A s \in ObservedDates : InsideBounds(parse_date_to_iso(s, date_format))

\* C7 as stated: with known bounds, the one candidate that places every observed
\* date inside [start, end] is selected and every converted date lies inside.
C7_OnlyInsideCandidateSelected ==
    pc = "done" /\ BoundsKnown =>
        \A fmt \in {"yy/mm/dd", "dd/mm/yy"} :
            PlacesAllInside(fmt) /\ ~PlacesAllInside(Other(fmt))
                => SelectedAndInside(fmt)

\* C7 (amended): with known bounds fewer than 1000 days apart, a candidate that
\* places every observed date inside [start, end] is selected, and every converted
\* date lies inside, when the other candidate converts no date at all or converts
\* at least one date to a day outside [start, end].
C7_InsideCandidateSelected ==
    pc = "done" /\ BoundsKnown /\ bound_dt(end_iso) - bound_dt(start_iso) < 1000 =>
        \A fmt \in {"yy/mm/dd", "dd/mm/yy"} :
            /\ PlacesAllInside(fmt)
            /\ (ParsesNone(Other(fmt)) \/ PlacesOneOutside(Other(fmt)))
            => SelectedAndInside(fmt)

\* C7 witness: two different dates, the day-first reading is the one inside the
\* bounds (the year-first one falls outside) and day-first has been selected
C7_Witness ==
    /\ pc = "done" /\ BoundsKnown
    /\ bound_dt(end_iso) - bound_dt(start_iso) < 1000
    /\ Cardinality(ObservedDates) >= 2
    /\ PlacesAllInside("dd/mm/yy")
    /\ PlacesOneOutside("yy/mm/dd")
    /\ date_format = "dd/mm/yy"

\* the value the claim gives a candidate that converts something: span in days
\* + 1000 x days before start + 1000 x days after end
ClaimValue(fmt) ==
    LET ds == {strptime(_parse_round_date_with_format(s, fmt)) : s \in ObservedDates} \ {0}
        lo == SetMin(ds)
        hi == SetMax(ds)
        s0 == bound_dt(start_iso)
        e0 == bound_dt(end_iso)
    IN (hi - lo)
       + 1000 * (IF s0 # 0 /\ s0 > lo THEN s0 - lo ELSE 0)
       + 1000 * (IF e0 # 0 /\ hi > e0 THEN hi - e0 ELSE 0)

\* C8: day-first is returned exactly when it converts some date and its value is
\* strictly smaller than year-first's (or year-first converts nothing); in every
\* other case - a tie, no date-shaped string, nothing converted - year-first.
C8_SmallestValueTiesYearFirst ==
    pc = "done" =>
        /\ date_format \in {"yy/mm/dd", "dd/mm/yy"}
        /\ date_format = "dd/mm/yy" <=>
              /\ ~ParsesNone("dd/mm/yy")
              /\ (ParsesNone("yy/mm/dd")
                  \/ ClaimValue("dd/mm/yy") < ClaimValue("yy/mm/dd"))

\* C8 witness: both candidates convert the dates to different days, their values
\* tie, and year-first is returned
C8_Witness ==
    /\ pc = "done"
    /\ ~ParsesNone("dd/mm/yy") /\ ~ParsesNone("yy/mm/dd")
    /\ \E s \in ObservedDates :
          _parse_round_date_with_format(s, "yy/mm/dd")
              # _parse_round_date_with_format(s, "dd/mm/yy")
    /\ ClaimValue("dd/mm/yy") = ClaimValue("yy/mm/dd")
    /\ date_format = "yy/mm/dd"

----------------------------------------------------------------------------
(* Claims on flatten_to_games (checked under SpecGames and SpecGameDates) *)

\* a row that gets as far as the dedup key
Eligible(r) ==
    /\ r.success /\ r.round # NoneNum
    /\ ~Falsy(r.player_id) /\ ~Falsy(r.opp_id)
    /\ r.color \in {"white", "black"}

\* carries a forfeit indicator or a score
Usable(r) == r.forfeit # "" \/ r.score # NoneNum

KeyOfRow(r) ==
    <<r.tournament_code, r.round,
      IF r.color = "white" THEN r.player_id ELSE r.opp_id,
      IF r.color = "white" THEN r.opp_id ELSE r.player_id>>

KeyOfGame(g) == <<g.tournament_code, g.round, g.white_id, g.black_id>>

GamesOfKey(k) == {n \in 1..Len(games) : KeyOfGame(games[n]) = k}

\* the two records of one physical game: same tournament and round, the ids
\* cross-reference each other, one is white and the other black
SamePhysicalGame(r1, r2) ==
    /\ r1.tournament_code = r2.tournament_code
    /\ r1.round = r2.round
    /\ ~Falsy(r1.player_id) /\ ~Falsy(r2.player_id)
    /\ r1.opp_id = r2.player_id /\ r2.opp_id = r1.player_id
    /\ r1.color \in {"white", "black"} /\ r2.color \in {"white", "black"}
    /\ r1.color # r2.color

\* C1: the two records of one physical game give exactly one GameRecord with
\* their key, in whichever order they stand in the input.
C1_PairGivesExactlyOneGame ==
    pc = "done" =>
        \A i, j \in 1..Len(flattened) :
            i # j /\ SamePhysicalGame(flattened[i], flattened[j])
                => Cardinality(GamesOfKey(KeyOfRow(flattened[i]))) = 1

\* C1 failing input reached: a white record without result stands before the
\* black record of the same game that carries one, and no game is emitted
C1_GameLost ==
    /\ pc = "done"
    /\ \E i, j \in 1..Len(flattened) :
          /\ i < j /\ SamePhysicalGame(flattened[i], flattened[j])
          /\ ~Usable(flattened[i]) /\ Usable(flattened[j])
    /\ games = <<>>

RowsOfKey(k) ==
    {i \in 1..Len(flattened) : Eligible(flattened[i]) /\ KeyOfRow(flattened[i]) = k}

\* the row a game comes from: the first eligible row of its key
SourceRow(g) ==
    flattened[CHOOSE i \in RowsOfKey(KeyOfGame(g)) :
                  \A j \in RowsOfKey(KeyOfGame(g)) : i <= j]

\* C2: no two emitted games share tournament_code, round, white_id and black_id.
C2_AtMostOneGamePerKey ==
    pc = "done" =>
        \A m, n \in 1..Len(games) : KeyOfGame(games[m]) = KeyOfGame(games[n]) => m = n

\* C2 witness: several input rows map to the key of an emitted game
C2_Witness ==
    /\ pc = "done"
    /\ \E n \in 1..Len(games) : Cardinality(RowsOfKey(KeyOfGame(games[n]))) >= 2

\* the GameRecord fields that the record r alone would give
DerivedFrom(g, r) ==
    /\ g.white_score = white_score_of(r.color, r.forfeit, r.score)
    /\ g.forfeit = (r.forfeit # "")
    /\ g.date = (IF Falsy(r.round_date) THEN NoneIso
                 ELSE _parse_round_date_with_format(r.round_date, date_format))

WhiteRowsOfKey(k) ==
    {i \in RowsOfKey(k) : flattened[i].color = "white" /\ Usable(flattened[i])}

\* C3: when the input holds a white-perspective record (with a result) for the
\* key of an emitted game, the game's white_score, forfeit flag and date are the
\* ones of such a white-perspective record.
C3_WhiteRecordCanonical ==
    pc = "done" =>
        \A n \in 1..Len(games) :
            WhiteRowsOfKey(KeyOfGame(games[n])) # {}
                => \E i \in WhiteRowsOfKey(KeyOfGame(games[n])) :
                       DerivedFrom(games[n], flattened[i])

\* flattened[i] (white's) and flattened[j] (black's) report one game consistently,
\* without forfeit, and no other row of their key stands before both
ConsistentPair(i, j) ==
    LET w == flattened[i]
        b == flattened[j]
    IN /\ SamePhysicalGame(w, b)
       /\ w.success /\ b.success
       /\ w.color = "white"
       /\ w.forfeit = "" /\ b.forfeit = ""
       /\ w.score # NoneNum /\ b.score # NoneNum
       /\ w.score + b.score = 2
       /\ (\A k \in RowsOfKey(KeyOfRow(w)) : k >= i \/ k >= j)

\* C4: a game whose source record has no forfeit indicator has white_score = s
\* when the record is white's and 2 - s (in half points) when it is black's, so
\* white_score and the black player's score add up to one point; and the two
\* records of a consistently reported game give the same white_score, which the
\* emitted game carries whichever of them comes first.
C4_ScoreSymmetry ==
    pc = "done" =>
        /\ \A n \in 1..Len(games) :
              (SourceRow(games[n]).forfeit = "" =>
                  /\ SourceRow(games[n]).score \in {0, 1, 2}
                  /\ ~games[n].forfeit
                  /\ (SourceRow(games[n]).color = "white"
                        => games[n].white_score = SourceRow(games[n]).score)
                  /\ (SourceRow(games[n]).color = "black"
                        => games[n].white_score + SourceRow(games[n]).score = 2))
        /\ \A i, j \in 1..Len(flattened) :
              (ConsistentPair(i, j) =>
                  \E n \in 1..Len(games) :
                      /\ KeyOfGame(games[n]) = KeyOfRow(flattened[i])
                      /\ games[n].white_score = flattened[i].score)

\* C4 witness: the black record of a consistently reported decisive game comes
\* first and the game carries white's score
C4_Witness ==
    /\ pc = "done"
    /\ Len(flattened) >= 2
    /\ SamePhysicalGame(flattened[1], flattened[2])
    /\ flattened[1].color = "black" /\ flattened[1].forfeit = "" /\ flattened[1].score = 0
    /\ flattened[2].forfeit = "" /\ flattened[2].score = 2
    /\ Len(games) = 1 /\ games[1].white_score = 2

\* C5: a game whose source record carries a forfeit indicator has forfeit = true
\* and white_score 1.0 for (white, "+") and (black, "-"), 0.0 for (white, "-")
\* and (black, "+"), whatever the record's score field holds.
C5_ForfeitMapping ==
    pc = "done" =>
        \A n \in 1..Len(games) :
            LET g == games[n]
                r == SourceRow(g)
            IN r.forfeit # "" =>
                  /\ g.forfeit
                  /\ (<<r.color, r.forfeit>> \in {<<"white", "+">>, <<"black", "-">>}
                        => g.white_score = 2)
                  /\ (<<r.color, r.forfeit>> \in {<<"white", "-">>, <<"black", "+">>}
                        => g.white_score = 0)

\* C5 witness: a black record with forfeit "+" and a score field of 0.0 gave a
\* forfeit game that white lost
C5_Witness ==
    /\ pc = "done"
    /\ \E n \in 1..Len(games) :
          /\ SourceRow(games[n]).color = "black"
          /\ SourceRow(games[n]).forfeit = "+"
          /\ SourceRow(games[n]).score = 0
          /\ games[n].forfeit /\ games[n].white_score = 0

\* C9: one format is inferred from the distinct raw dates of the successful rows
\* and the bounds (year-first unless day-first converts something and has the
\* strictly smaller value), and every game's date is its source record's raw date
\* converted with that one format - empty when that format does not convert it.
C9_OneFormatPerCall ==
    pc = "done" =>
        /\ ObservedDates = round_date_set(flattened)
        /\ date_format \in {"yy/mm/dd", "dd/mm/yy"}
        /\ date_format = "dd/mm/yy" <=>
              /\ ~ParsesNone("dd/mm/yy")
              /\ (ParsesNone("yy/mm/dd")
                  \/ ClaimValue("dd/mm/yy") < ClaimValue("yy/mm/dd"))
        /\ \A n \in 1..Len(games) :
              games[n].date =
                  IF Falsy(SourceRow(games[n]).round_date) THEN NoneIso
                  ELSE _parse_round_date_with_format(SourceRow(games[n]).round_date,
                                                     date_format)

\* C9 witness: two games; one has a date, the other's raw date converts only
\* under the format that was not chosen and its date is empty
C9_Witness ==
    /\ pc = "done"
    /\ \E m, n \in 1..Len(games) :
          /\ games[m].date # NoneIso
          /\ games[n].date = NoneIso
          /\ _parse_round_date_with_format(SourceRow(games[n]).round_date,
                                           Other(date_format)) # NoneIso

----------------------------------------------------------------------------
(* Claims on the table walk (checked under SpecWalk) *)

\* <<p, k>>: round k of player p is stored
StoredRounds ==
    {pk \in (1..Len(players)) \X (1..MaxTableRows) : pk[2] <= Len(players[pk[1]].rounds)}

RoundAt(pk) == players[pk[1]].rounds[pk[2]]

\* cell 1 of the row shows no text at all
OpponentCellEmpty(row) ==
    row.text = "" /\ \A k \in 1..Len(row.links) : row.links[k].text = ""

\* the table rows that are byes: round rows without opponent name and forfeit marker
ByeRows ==
    {i \in 1..Len(rows) : /\ is_round_row(rows[i])
                          /\ OpponentCellEmpty(rows[i])
                          /\ extract_forfeit_indicator(rows[i].score_text) = ""}

\* row i lies in the run of round rows below the summary row of player p
InBlock(p, i) ==
    /\ i > players[p].row
    /\ i <= Len(rows)
    /\ \A j \in (players[p].row + 1)..i :
          \/ is_round_row(rows[j])
          \/ j = players[p].row + 1 /\ is_header_row(rows[j])

\* <<white_id, black_id, round>> of a stored round
RoundKey(pk) ==
    IF RoundAt(pk).color = "white"
    THEN <<players[pk[1]].id, RoundAt(pk).opp_id, RoundAt(pk).round>>
    ELSE <<RoundAt(pk).opp_id, players[pk[1]].id, RoundAt(pk).round>>

\* C6: a round row with an empty opponent-name cell and no forfeit marker (a bye)
\* is in the rounds of no player, every game comes from a round row that is not a
\* bye, and the round row that follows a bye inside a player's run of round rows
\* is still stored for that player.
C6_ByeExclusion ==
    /\ \A pk \in StoredRounds : RoundAt(pk).row \notin ByeRows
    /\ \A g \in 1..Len(games) :
          \E pk \in StoredRounds :
             /\ RoundAt(pk).row \notin ByeRows
             /\ RoundKey(pk) = <<games[g].white_id, games[g].black_id, games[g].round>>
    /\ \A p \in 1..Len(players) : \A i \in ByeRows :
          (InBlock(p, i) /\ InBlock(p, i + 1) /\ (i + 1) \notin ByeRows)
             => \E pk \in StoredRounds : pk[1] = p /\ RoundAt(pk).row = i + 1

\* C6 witness: a player's bye row is followed by a round row that is stored and
\* gives a game, while the bye gives none
C6_Witness ==
    /\ pc = "done"
    /\ \E p \in 1..Len(players) : \E i \in ByeRows :
          /\ InBlock(p, i)
          /\ \E pk \in StoredRounds : pk[1] = p /\ RoundAt(pk).row = i + 1
    /\ Len(games) = 1

\* the fragment t of the first hyperlink of the row ("" when there is none)
Fragment(row) ==
    LET with_href == {k \in 1..Len(row.links) : row.links[k].href # NoneStr} IN
    IF with_href = {} THEN <<>>
    ELSE IF row.links[SetMin(with_href)].href[1] = "#"
         THEN Tail(row.links[SetMin(with_href)].href)
         ELSE <<>>

\* cell 1 of the row holds the named anchor t
Carries(row, t) == \E k \in 1..Len(row.links) : row.links[k].name = t

\* the summary rows (at least 7 cells, numeric first cell) that carry the anchor t
SummaryRowsOf(t) == {j \in 1..Len(rows) : is_player_row(rows[j]) /\ Carries(rows[j], t)}

\* the rows the first pass reads an anchor from (at least 2 cells, numeric first
\* cell) that carry the anchor t
AnchorRowsOf(t) ==
    {j \in 1..Len(rows) : /\ rows[j].ncells >= 2
                          /\ isdigit(rows[j].first)
                          /\ Carries(rows[j], t)}

PlayerRowIndices == {i \in 1..Len(rows) : is_player_row(rows[i])}

\* C11: after the walk the players list has exactly one entry per row that passes
\* the player-summary test, in table order, and no such row is stored as a round
\* of the preceding player.
C11_EveryPlayerRowOpensRecord ==
    pc \in {"parsed", "done"} /\ table =>
        /\ Len(players) = Cardinality(PlayerRowIndices)
        /\ \A p \in 1..Len(players) :
              /\ players[p].row \in PlayerRowIndices
              /\ Cardinality({i \in PlayerRowIndices : i <= players[p].row}) = p
        /\ \A pk \in StoredRounds : RoundAt(pk).row \notin PlayerRowIndices

\* C11 failing input reached: the summary row of a second player (with its named
\* anchor) stands directly below the rows of the first one and is stored as a
\* round of the first player, its id taken as the round number
C11_SummaryRowSwallowed ==
    /\ pc = "done"
    /\ \E pk \in StoredRounds :
          /\ RoundAt(pk).row \in PlayerRowIndices
          /\ \E k \in 1..Len(rows[RoundAt(pk).row].links) :
                ~Falsy(rows[RoundAt(pk).row].links[k].name)
          /\ RoundAt(pk).round = int(rows[RoundAt(pk).row].first)
    /\ Len(players) < Cardinality(PlayerRowIndices)

\* C12: a document without results table gives "no data found"; a table without
\* any row that passes the player-summary test gives "no players found" and no
\* player; every other table gives a success with at least one player.
C12_StructuralErrors ==
    pc \in {"parsed", "done"} =>
        /\ ~table => error = <<"no data found">> /\ players = <<>>
        /\ (table /\ PlayerRowIndices = {}) =>
              error = <<"no players found">> /\ players = <<>>
        /\ (table /\ PlayerRowIndices # {}) => error = <<>> /\ Len(players) >= 1
        /\ error = <<>> => Len(players) >= 1

\* C12 witness: a table with rows, none of them a player-summary row, has been
\* parsed to "no players found" and flattened to the single row of a failure
C12_Witness ==
    /\ pc = "done"
    /\ table /\ Len(rows) >= 2 /\ PlayerRowIndices = {}
    /\ error = <<"no players found">>
    /\ Len(flattened) = 1 /\ ~flattened[1].success

----------------------------------------------------------------------------
(* Claims on the fetch of one tournament (checked under SpecFetch) *)

IsStructural(err) == err \in {<<"no data found">>, <<"no players found">>}

\* C13: a structural parse error ends the call in the attempt that met it, no
\* further HTTP attempt follows it in this or a later pass, main does not queue
\* the tournament again, and main queues a tournament again only after an error
\* that holds "timeout" or a network pattern.
C13_StructuralNotRetried ==
    /\ [](pc \in {"queued", "attempting"} => ~IsStructural(error))
    /\ [][/\ (pc = "returned" /\ IsStructural(error)) =>
                (pc' = "finished" /\ pass_failed' = <<>> /\ attempt' = attempt)
          /\ (pc = "returned" /\ pc' = "queued") =>
                (has_timeout(error) \/ has_network_pattern(error))]_vars

\* C13 witness: in a pass that is not the last one, a first attempt timed out, the
\* second one met a table without players, and the tournament is finished after
\* these two attempts without being queued again
C13_Witness ==
    /\ pc = "finished"
    /\ error = <<"no players found">>
    /\ attempt = 2
    /\ last_error = <<"timeout:", "read timed out">>
    /\ pass_num < MaxRetryPasses
    /\ pass_failed = <<>>
    /\ Len(all_results) = 1

----------------------------------------------------------------------------
(* Claims on the score cell (checked under SpecRounds and SpecScoreCell) *)

\* the text holds the word forfeit in any case, or is exactly a sign
IsForfeitText(t) == Contains(lower(t), ForfeitWord) \/ t \in {<<"-">>, <<"+">>}

HasDigit(t) == \E i \in 1..Len(t) : t[i] \in Digit

\* the first numeric substring of t (digits, then optionally a point and digits)
\* as <<integer digits, fraction digits>>
FirstNumeric(t) ==
    LET p == CHOOSE i \in 1..Len(t) : t[i] \in Digit /\ \A j \in 1..(i - 1) : t[j] \notin Digit
        n == DigitRun(t, p)
        point == p + n <= Len(t) /\ t[p + n] = "."
        m == IF point THEN DigitRun(t, p + n + 1) ELSE 0
    IN <<SubSeq(t, p, p + n - 1), SubSeq(t, p + n + 1, p + n + m)>>

\* a digit string read as a fraction, in units of 1/10000
RECURSIVE FractionVal(_, _)
FractionVal(fp, unit) ==
    IF fp = <<>> \/ unit = 0 THEN 0
    ELSE DigitVal(Head(fp)) * unit + FractionVal(Tail(fp), unit \div 10)

\* the value of the first numeric substring of t, in units of 1/10000
NumericValue(t) ==
    DigitsVal(FirstNumeric(t)[1]) * 10000 + FractionVal(FirstNumeric(t)[2], 1000)

\* the first numeric substring of t is exactly 0, 0.5 or 1
AcceptedNumber(t) == HasDigit(t) /\ NumericValue(t) \in {0, 5000, 10000}

\* C14 as stated: every stored round has either a score or a forfeit indicator,
\* and not both.
C14_ExactlyOneOfScoreAndForfeit ==
    \A pk \in StoredRounds :
       (RoundAt(pk).score # NoneNum) # (RoundAt(pk).forfeit # "")

\* C14 amended: no stored round has both; a stored round has neither exactly when
\* the text of its score cell is no forfeit text and its first number is not 0,
\* 0.5 or 1 (or it holds no number at all).
C14_AtMostOneOfScoreAndForfeit ==
    \A pk \in StoredRounds :
       LET t == rows[RoundAt(pk).row].score_text IN
       /\ ~(RoundAt(pk).score # NoneNum /\ RoundAt(pk).forfeit # "")
       /\ (RoundAt(pk).score = NoneNum /\ RoundAt(pk).forfeit = "")
             <=> (~IsForfeitText(t) /\ ~AcceptedNumber(t))

\* C14 witness: a round row with an opponent and a score cell that holds a number
\* other than 0, 0.5, 1 is stored with neither score nor forfeit indicator
C14_Witness ==
    /\ pc = "done"
    /\ \E pk \in StoredRounds :
          /\ RoundAt(pk).opp_name # <<>>
          /\ HasDigit(rows[RoundAt(pk).row].score_text)
          /\ RoundAt(pk).row = 2
          /\ RoundAt(pk).score = NoneNum
          /\ RoundAt(pk).forfeit = ""

----------------------------------------------------------------------------
(* Further claims on flatten_to_games (checked under SpecGames, SpecGameDates) *)

\* the rows that can be the source of game g: successful, with round, both ids, a
\* colour white or black and a score or forfeit indicator, and with g's key,
\* white_score and forfeit flag
SourcesOf(g) ==
    {i \in 1..Len(flattened) :
        /\ Eligible(flattened[i])
        /\ Usable(flattened[i])
        /\ KeyOfRow(flattened[i]) = KeyOfGame(g)
        /\ g.white_score = white_score_of(flattened[i].color, flattened[i].forfeit,
                                          flattened[i].score)
        /\ g.forfeit = (flattened[i].forfeit # "")}

\* C15: every emitted game comes from a successful row with a round, both ids, a
\* colour white or black and a score or forfeit indicator; it has non-empty
\* white_id and black_id and a white_score of 0.0, 0.5 or 1.0; an input without
\* such a row gives no game.
C15_GamesFromEligibleRows ==
    pc = "done" =>
        /\ \A n \in 1..Len(games) :
              /\ SourcesOf(games[n]) # {}
              /\ ~Falsy(games[n].white_id) /\ ~Falsy(games[n].black_id)
              /\ games[n].white_score \in {0, 1, 2}
        /\ (\A i \in 1..Len(flattened) : ~(Eligible(flattened[i]) /\ Usable(flattened[i])))
              => games = <<>>

\* C15 witness: the input holds a row without colour and a row with neither score
\* nor forfeit indicator next to an eligible one, and one game is emitted
C15_Witness ==
    /\ pc = "done"
    /\ Len(flattened) = 2
    /\ \E i \in 1..Len(flattened) :
          ~Falsy(flattened[i].opp_id) /\ flattened[i].round # NoneNum
          /\ (flattened[i].color = "" \/ ~Usable(flattened[i]))
    /\ Len(games) = 1

----------------------------------------------------------------------------
(* Further claims on the table walk (checked under SpecWalk) *)

\* the round row i names no anchor, or one that no row of the first pass carries
Unlinked(i) ==
    \/ Fragment(rows[i]) = <<>>
    \/ \A j \in 1..Len(rows) :
          ~(rows[j].ncells >= 2 /\ isdigit(rows[j].first) /\ Carries(rows[j], Fragment(rows[i])))

\* the stored rounds that come from an unlinked row
UnlinkedRounds == {pk \in StoredRounds : Unlinked(RoundAt(pk).row)}

\* the players as they would be without the rounds that have no opp_id
LinkedOnly ==
    [p \in 1..Len(players) |->
        [players[p] EXCEPT !.rounds = SelectSeq(@, LAMBDA r : r.opp_id # <<>>)]]

\* C16: a round row of a player whose anchor is absent or unresolved, and which
\* has an opponent name or a forfeit marker, is stored with opp_id = "", the parse
\* succeeds, the round gives no game, and the games are those of the other rounds.
C16_LinkageMissAbsorbed ==
    pc \in {"parsed", "done"} =>
        /\ \A p \in 1..Len(players) : \A i \in 1..Len(rows) :
              (/\ InBlock(p, i)
               /\ ~(i = players[p].row + 1 /\ is_header_row(rows[i]))
               /\ Unlinked(i)
               /\ i \notin ByeRows)
                 => \E pk \in UnlinkedRounds :
                       pk[1] = p /\ RoundAt(pk).row = i /\ RoundAt(pk).opp_id = <<>>
        /\ UnlinkedRounds # {} => error = <<>>
        /\ pc = "done" =>
              games = flatten_to_games(
                         flatten_result([tournament_code |-> "TC", success |-> error = <<>>,
                                         error |-> error, players |-> LinkedOnly]),
                         date_format)

\* C16 witness: a player has a round whose anchor 9 is on no row, stored without
\* opp_id, next to a linked round, and the one game of the linked round is emitted
C16_Witness ==
    /\ pc = "done"
    /\ error = <<>>
    /\ \E pk \in UnlinkedRounds :
          /\ Fragment(rows[RoundAt(pk).row]) # <<>>
          /\ RoundAt(pk).score # NoneNum
          /\ \E pk2 \in StoredRounds : pk2[1] = pk[1] /\ RoundAt(pk2).opp_id # <<>>
    /\ Len(games) = 1

----------------------------------------------------------------------------
(* Further claims on the dates of the games (checked under SpecGameDates) *)

\* the input with every raw date removed
Undated == [i \in 1..Len(flattened) |-> [flattened[i] EXCEPT !.round_date = <<>>]]

KeysOf(gs) == {KeyOfGame(gs[n]) : n \in 1..Len(gs)}

\* C17: every eligible record with a score or forfeit indicator has the game of
\* its key emitted, and exactly once, whatever its raw date; the game's date is
\* empty when the raw date of the first record of the key is empty or does not
\* convert under the chosen format; the keys emitted are those emitted for the
\* same input without any raw date.
C17_UndatedGameEmitted ==
    pc = "done" =>
        /\ \A i \in 1..Len(flattened) :
              (Eligible(flattened[i]) /\ Usable(flattened[i]))
                 => /\ Cardinality(GamesOfKey(KeyOfRow(flattened[i]))) = 1
                    /\ \A n \in GamesOfKey(KeyOfRow(flattened[i])) :
                          LET raw == SourceRow(games[n]).round_date IN
                          (Falsy(raw)
                             \/ _parse_round_date_with_format(raw, date_format) = NoneIso)
                             => games[n].date = NoneIso
        /\ KeysOf(games) = KeysOf(flatten_to_games(Undated, date_format))
        /\ Len(games) = Len(flatten_to_games(Undated, date_format))

\* C17 witness: the two records of one game carry different raw dates, the first
\* one a date that the chosen format does not convert; one game, with empty date
C17_Witness ==
    /\ pc = "done"
    /\ Len(flattened) = 2
    /\ Eligible(flattened[1]) /\ Eligible(flattened[2])
    /\ KeyOfRow(flattened[1]) = KeyOfRow(flattened[2])
    /\ flattened[1].round_date # flattened[2].round_date
    /\ ~Falsy(flattened[1].round_date)
    /\ ~Falsy(flattened[2].round_date)
    /\ _parse_round_date_with_format(flattened[2].round_date, date_format) # NoneIso
    /\ Len(games) = 1
    /\ games[1].date = NoneIso

----------------------------------------------------------------------------
(* Specification of the round-date conversion: one call of                    *)
(* _parse_round_date_with_format on one raw date under one field order        *)

\* the texts of one field of a raw date: one, two and four digits
DateFields ==
    {<<"0">>, <<"5">>,
     <<"0", "0">>, <<"0", "1">>, <<"1", "2">>, <<"1", "3">>, <<"2", "4">>,
     <<"3", "1">>, <<"3", "2">>, <<"4", "9">>, <<"5", "0">>, <<"9", "9">>,
     <<"1", "9", "4", "9">>, <<"2", "0", "2", "4">>}

ConvertDates ==
    {a \o <<"/">> \o b \o <<"/">> \o c : a \in DateFields, b \in DateFields, c \in DateFields}
    \cup {<<>>, NoneStr, <<"2", "4", "/", "1", "1">>,
          <<" ">> \o Date_24_11_25 \o <<" ">>,
          Date_24_11_25 \o <<"/", "0", "1">>}

InitConvert ==
    /\ pc = "call"
    /\ arg \in ConvertDates
    /\ \E k \in DOMAIN candidates : date_format = candidates[k]
    /\ ret = <<>>
    /\ FetchIdle
    /\ MainIdle
    /\ table = FALSE
    /\ rows = <<>>
    /\ anchor_to_id = EmptyMap
    /\ players = <<>>
    /\ error = <<>>
    /\ flattened = <<>>
    /\ start_iso = NoneIso
    /\ end_iso = NoneIso
    /\ date_strings = <<>>
    /\ games = <<>>

ConvertRoundDate ==
    /\ pc = "call"
    /\ ret' = _parse_round_date_with_format(arg, date_format)
    /\ pc' = "done"
    /\ UNCHANGED <<arg, date_strings, start_iso, end_iso, date_format, flattened, games,
                   table, rows, anchor_to_id, players, error, fetchVars, mainVars>>

NextConvert == ConvertRoundDate

SpecConvert == InitConvert /\ [][NextConvert]_vars

----------------------------------------------------------------------------
(* Claims on the round-date conversion (checked under SpecConvert) *)

\* the raw date without the blanks around it, and its fields
Raw == strip(arg)

\* the raw date is three runs of digits separated by two slashes
IsTriple == Len(split(Raw)) = 3 /\ \A k \in 1..3 : IntOk(split(Raw)[k])

\* the texts of the year, month and day under the field order of the call
YearField == IF date_format = "yy/mm/dd" THEN split(Raw)[1] ELSE split(Raw)[3]
MonthField == split(Raw)[2]
DayField == IF date_format = "yy/mm/dd" THEN split(Raw)[3] ELSE split(Raw)[1]

\* month in 1..12 and day in 1..31
InRange == DigitsVal(MonthField) \in 1..12 /\ DigitsVal(DayField) \in 1..31

\* the year a year text stands for: four digits as they are, fewer by the pivot
YearOf(y) ==
    IF Len(y) = 4 THEN DigitsVal(y)
    ELSE IF DigitsVal(y) < 50 THEN 2000 + DigitsVal(y) ELSE 1900 + DigitsVal(y)

\* the date has the shape the conversion reads: one or two digits in the first
\* two fields, two to four in the last
Shape ==
    /\ Len(split(Raw)[1]) \in {1, 2}
    /\ Len(split(Raw)[2]) \in {1, 2}
    /\ Len(split(Raw)[3]) \in {2, 3, 4}

----------------------------------------------------------------------------
(* Claims on the score cell (checked under SpecScoreCell) *)

\* C19: parse_score gives null, 0.0, 0.5 or 1.0; it gives a number exactly when
\* the text is not a forfeit text and its first numeric substring is exactly 0,
\* 0.5 or 1, and the number is that value; other numeric values, empty text, text
\* without digits and forfeit texts give null.
C19_ScoreOnlyExactValues ==
    pc = "done" =>
        /\ ret.score \in {NoneNum, 0, 1, 2}
        /\ ret.score # NoneNum <=> (~IsForfeitText(arg) /\ AcceptedNumber(arg))
        /\ ret.score # NoneNum => ret.score * 5000 = NumericValue(arg)
        /\ (Falsy(arg) \/ ~HasDigit(arg) \/ IsForfeitText(arg)) => ret.score = NoneNum

\* C19 witness: the first numeric substring of the text is 1.5 and the score is null
C19_Witness ==
    /\ pc = "done"
    /\ HasDigit(arg)
    /\ ~IsForfeitText(arg)
    /\ NumericValue(arg) = 15000
    /\ ret.score = NoneNum

\* the forfeit indicator the statement of C20 gives to the text t
IndicatorOf(t) ==
    LET word == Contains(lower(t), ForfeitWord)
        minus == Contains(t, <<"-">>)
        plus == Contains(t, <<"+">>)
    IN IF word /\ (minus \/ ~plus) THEN "-"
       ELSE IF word /\ plus /\ ~minus THEN "+"
       ELSE IF t = <<"-">> THEN "-"
       ELSE IF t = <<"+">> THEN "+"
       ELSE ""

\* C20 as stated: extract_forfeit_indicator gives "-" for a text that contains
\* forfeit (in any case) and contains "-" or no sign, "+" for a forfeit text with
\* "+" and no "-", the sign for a text that is exactly "-" or "+", and "" for
\* every other text, the empty text and numeric scores included.
C20_IndicatorOfText ==
    pc = "done" => ret.forfeit = IF Falsy(arg) THEN "" ELSE IndicatorOf(arg)

\* C20 amended: the same rules for the text without the blanks around it; a
\* sign with blanks around it gives that sign.
C20_IndicatorOfTrimmedText ==
    pc = "done" =>
        /\ ret.forfeit = IF Falsy(arg) THEN "" ELSE IndicatorOf(strip(arg))
        /\ (~Falsy(arg) /\ strip(arg) \in {<<"-">>, <<"+">>}) => <<ret.forfeit>> = strip(arg)

\* C20 witness: a forfeit text without any sign gives "-"
C20_Witness ==
    /\ pc = "done"
    /\ Contains(lower(arg), ForfeitWord)
    /\ ~Contains(arg, <<"-">>)
    /\ ~Contains(arg, <<"+">>)
    /\ ret.forfeit = "-"

----------------------------------------------------------------------------
(* Claims on flatten_result (checked under SpecWalk) *)

\* the number of rows player p takes in the flattened list
RowsFor(p) == IF players[p].rounds = <<>> THEN 1 ELSE Len(players[p].rounds)

\* the number of rows of the players before p
RECURSIVE RowsBefore(_)
RowsBefore(p) == IF p <= 1 THEN 0 ELSE RowsBefore(p - 1) + RowsFor(p - 1)

\* the rows of the flattened list that can give a game: successful, with a round
WithRound == SelectSeq(flattened, LAMBDA r : r.success /\ r.round # NoneNum)

\* C21: for a successful result the flattened list holds, player after player,
\* one row per stored round, or one row with round None for a player without
\* rounds; for a failed result it is one row with success false and the error
\* text; the rows with round None and the failed rows give no game.
C21_FlattenedRows ==
    pc = "done" =>
        /\ error = <<>> =>
              /\ Len(flattened) = RowsBefore(Len(players) + 1)
              /\ \A i \in 1..Len(flattened) : flattened[i].success /\ flattened[i].error = <<>>
              /\ \A p \in 1..Len(players) :
                    IF players[p].rounds = <<>>
                    THEN /\ flattened[RowsBefore(p) + 1].player_id = players[p].id
                         /\ flattened[RowsBefore(p) + 1].round = NoneNum
                    ELSE \A k \in 1..Len(players[p].rounds) :
                            LET r == flattened[RowsBefore(p) + k]
                                d == players[p].rounds[k]
                            IN /\ r.player_id = players[p].id
                               /\ <<r.round, r.round_date, r.opp_id, r.color, r.score, r.forfeit>>
                                     = <<d.round, d.date, d.opp_id, d.color, d.score, d.forfeit>>
        /\ error # <<>> =>
              /\ Len(flattened) = 1
              /\ ~flattened[1].success
              /\ flattened[1].error = error
              /\ games = <<>>
        /\ games = flatten_to_games(WithRound, date_format)
        /\ \A n \in 1..Len(games) : games[n].round # NoneNum

\* C21 witness: a player with a round and a player without rounds give two rows,
\* the second one with round None, and the one game of the round
C21_Witness ==
    /\ pc = "done"
    /\ error = <<>>
    /\ Len(players) = 2
    /\ Len(flattened) = 2
    /\ flattened[1].round # NoneNum
    /\ flattened[2].round = NoneNum
    /\ flattened[2].player_id = players[2].id
    /\ Len(games) = 1

----------------------------------------------------------------------------
(* Frame claim on flatten_to_games (checked under SpecGames) *)

\* the input without the rows that have neither a score nor a forfeit indicator
UsableOnly == SelectSeq(flattened, Usable)

\* <<key, white_score, forfeit>> of the games of a list
Outcomes22(gs) == {<<KeyOfGame(gs[n]), gs[n].white_score, gs[n].forfeit>> : n \in 1..Len(gs)}

\* C22: the game keys emitted, and each game's white_score and forfeit flag, are
\* those emitted for the input without the rows that have neither a score nor a
\* forfeit indicator.
C22_DroppedRowsNoEffect ==
    pc = "done" =>
        /\ Outcomes22(games) = Outcomes22(flatten_to_games(UsableOnly, date_format))
        /\ Len(games) = Len(flatten_to_games(UsableOnly, date_format))

\* C22 failing input reached: the input without its scoreless first row gives a
\* game of the key of that row, the whole input gives none
C22_ScorelessRowBlocksGame ==
    /\ pc = "done"
    /\ Len(flattened) = 2
    /\ Eligible(flattened[1]) /\ ~Usable(flattened[1])
    /\ Eligible(flattened[2]) /\ Usable(flattened[2])
    /\ flattened[1].player_id # flattened[2].player_id
    /\ KeyOfRow(flattened[1]) \in KeysOf(flatten_to_games(UsableOnly, date_format))
    /\ games = <<>>

----------------------------------------------------------------------------
(* Invariant of the parsed report (checked under SpecWalk) *)

PlayerIds == {players[p].id : p \in 1..Len(players)}

\* C23: in a successfully parsed report every non-empty opp_id of a stored round
\* is the id of a player of the report.
C23_OppIdIsPlayerId ==
    (pc \in {"parsed", "done"} /\ table /\ error = <<>>) =>
        \A pk \in StoredRounds :
            RoundAt(pk).opp_id # <<>> => RoundAt(pk).opp_id \in PlayerIds

\* C23 failing input reached: a row with fewer than 7 cells carries the anchor a
\* round links to; its first cell is stored as opp_id and no player has that id
C23_OppIdOfNoPlayer ==
    /\ pc = "parsed"
    /\ error = <<>>
    /\ \E pk \in StoredRounds :
          /\ RoundAt(pk).opp_id # <<>>
          /\ RoundAt(pk).opp_id \notin PlayerIds
          /\ \E j \in AnchorRowsOf(Fragment(rows[RoundAt(pk).row])) :
                rows[j].ncells < 7 /\ rows[j].first = RoundAt(pk).opp_id

\* C23 second failing input reached: the summary row that carries the anchor was
\* stored as a round of the player above it, so its id is the id of no player
C23_OppIdOfSwallowedPlayer ==
    /\ pc = "parsed"
    /\ error = <<>>
    /\ \A j \in 1..Len(rows) : rows[j].ncells >= 7
    /\ \E pk \in StoredRounds :
          /\ RoundAt(pk).opp_id # <<>>
          /\ RoundAt(pk).opp_id \notin PlayerIds

----------------------------------------------------------------------------
(* Claims on the attempt loop of fetch_tournament_report (checked under SpecFetch) *)

\* the error of an attempt after which the loop goes on
Retriable(e) ==
    \/ e[1] \in {"HTTP", "timeout:", "parse error:"}
    \/ e[1] = "network error:" /\ e[2] \in network_error_patterns

\* C24: a call issues at most 3 GETs; after a GET the loop goes on exactly when
\* the attempt ended with a status other than 200, a timeout, a connection or
\* request error with a network pattern, or an unexpected exception, and returns
\* at once for any other connection or request error; after three failed attempts
\* it returns (None, "max retries exceeded: <last error>", 3); the returned count
\* is the number of GETs issued, between 1 and 3.
C24_AtMostThreeGets ==
    /\ [](attempt \in 0..3)
    /\ [](pc = "returned" =>
             /\ ret.attempts = attempt
             /\ ret.attempts \in 1..3
             /\ ret.error = error
             /\ ret.report <=> error = <<>>)
    /\ [][(pc = "attempting" /\ attempt' = attempt + 1 /\ pc' = "attempting")
             => Retriable(last_error')]_vars
    /\ [][(pc = "attempting" /\ attempt' = attempt + 1 /\ pc' = "returned"
              /\ error' # <<>> /\ error' = last_error')
             => ~Retriable(last_error')]_vars
    /\ [][(pc = "attempting" /\ attempt' = attempt + 1 /\ pc' = "returned"
              /\ error' # last_error')
             => (last_error' = last_error
                   /\ error' \in {<<>>, <<"no data found">>, <<"no players found">>})]_vars
    /\ [][(pc = "attempting" /\ pc' = "attempting") => attempt' = attempt + 1]_vars
    /\ [][(pc = "attempting" /\ pc' = "returned" /\ attempt' = attempt)
             => /\ attempt = 3
                /\ last_error # <<>>
                /\ ret' = [report |-> FALSE,
                           error |-> <<"max retries exceeded:">> \o last_error,
                           attempts |-> 3]]_vars

\* C24 witness: three attempts failed, the third with a timeout, and the call
\* returned max retries exceeded with the count 3
C24_Witness ==
    /\ pc = "returned"
    /\ attempt = 3
    /\ last_error[1] = "timeout:"
    /\ ret = [report |-> FALSE,
              error |-> <<"max retries exceeded:">> \o last_error,
              attempts |-> 3]

----------------------------------------------------------------------------
(* Claims on main's retry passes (checked under SpecMain) *)

\* the tournament codes of the input
InputCodes == {arg.tournament_codes[k] : k \in 1..Len(arg.tournament_codes)}

\* how often the code c stands in the input
Occurrences(c) ==
    Cardinality({k \in 1..Len(arg.tournament_codes) : arg.tournament_codes[k] = c})

DistinctCodes == \A c \in InputCodes : Occurrences(c) = 1

\* the fetches of code c: the results appended for it, in pass p or in any pass
FetchesIn(c, p) ==
    {k \in 1..Len(all_results) :
        all_results[k].tournament_code = c /\ all_results[k].pass = p}

FetchesOf(c) == {k \in 1..Len(all_results) : all_results[k].tournament_code = c}

\* the error is a timeout or has the shape of a network error
NetworkShaped(err) == has_timeout(err) \/ has_network_pattern(err)

\* the steps main has left at most: the passes still to come, each as long as
\* the input, then the rest of the current pass, then the save
StepsLeft ==
    CASE pc = "finished" -> 0
      [] pc = "saving" -> 1
      [] pc = "loop" ->
            2 + (MaxRetryPasses + 1 - pass_num) * (Len(arg.tournament_codes) + 2)
      [] pc = "pass" ->
            2 + (MaxRetryPasses - pass_num) * (Len(arg.tournament_codes) + 2)
              + (Len(current_tournaments) - next_idx + 1) + 1

\* the parts of C25 that do not count fetches per code: at most max_retries + 1
\* passes, a code is queued again only after a timeout or network-shaped error
\* in a pass that is not the last, the loop ends when a pass queued nothing, and
\* every step of main brings its end nearer
PassesBounded ==
    /\ [](pass_num <= MaxRetryPasses + 1)
    /\ [](\A k \in 1..Len(all_results) : all_results[k].pass \in 0..MaxRetryPasses)
    /\ [][(pc = "pass" /\ pass_failed' # pass_failed) =>
             /\ pass_failed' = Append(pass_failed, current_tournaments[next_idx])
             /\ error' # <<>> /\ NetworkShaped(error')
             /\ pass_num < MaxRetryPasses]_vars
    /\ [][(pc = "pass" /\ pc' = "loop") => current_tournaments' = pass_failed]_vars
    /\ [][(pc = "loop" /\ current_tournaments = <<>>) => pc' = "saving"]_vars
    /\ [][(pc \in {"saving", "finished"}) => (all_results' = all_results)]_vars
    /\ [](StepsLeft >= 0 /\ Len(current_tournaments) <= Len(arg.tournament_codes))
    /\ [][StepsLeft' < StepsLeft]_vars

\* C25 as stated: main's retry loop ends after at most max_retries + 1 passes;
\* each tournament code is fetched at most once per pass and at most
\* max_retries + 1 times overall; a code is queued again only after a timeout or
\* network-shaped error in a pass that is not the last; the loop ends as soon as
\* a pass queued nothing.
C25_OncePerPass ==
    /\ PassesBounded
    /\ [](\A c \in InputCodes :
             /\ \A p \in 0..MaxRetryPasses : Cardinality(FetchesIn(c, p)) <= 1
             /\ Cardinality(FetchesOf(c)) <= MaxRetryPasses + 1)

\* C25 amended: the same, counted per entry of the input list: a code that
\* stands n times in the input is fetched at most n times per pass and at most
\* n * (max_retries + 1) times overall - once per pass when the codes of the
\* input are distinct.
C25_OncePerPassAndEntry ==
    /\ PassesBounded
    /\ [](\A c \in InputCodes :
             /\ \A p \in 0..MaxRetryPasses :
                   Cardinality(FetchesIn(c, p)) <= Occurrences(c)
             /\ Cardinality(FetchesOf(c)) <= Occurrences(c) * (MaxRetryPasses + 1))

\* C25 witness: with distinct codes one code was fetched in every pass, timed
\* out each time, and main has come to its end
C25_Witness ==
    /\ pc = "finished"
    /\ DistinctCodes
    /\ pass_num = MaxRetryPasses + 1
    /\ \E c \in InputCodes :
          /\ Cardinality(FetchesOf(c)) = MaxRetryPasses + 1
          /\ \A k \in FetchesOf(c) : has_timeout(all_results[k].error)

\* the successful results of code c
SuccessesOf(c) == {k \in FetchesOf(c) : all_results[k].success}

\* C26: with distinct codes in the input, all_results holds at most one
\* successful result per code, no code is fetched again after it succeeded, a
\* failed result gives no games, and the final games output holds no game twice:
\* it is the games of each successful tournament, once.
C26_OneSuccessPerCode ==
    DistinctCodes =>
        /\ \A c \in InputCodes : Cardinality(SuccessesOf(c)) <= 1
        /\ \A k \in 1..Len(all_results) :
              /\ all_results[k].success =>
                    \A j \in (k + 1)..Len(all_results) :
                        all_results[j].tournament_code # all_results[k].tournament_code
              /\ ~all_results[k].success => games_of_result(all_results[k]) = <<>>
        /\ pc = "finished" =>
              /\ \A m, n \in 1..Len(games) : m # n => games[m] # games[n]
              /\ \A c \in InputCodes :
                    Cardinality({n \in 1..Len(games) : games[n].tournament_code = c})
                       = Cardinality(SuccessesOf(c))

\* C26 witness: of two distinct codes one timed out in the first pass and
\* succeeded in the second, the other succeeded at once; the output holds the
\* one game of each
C26_Witness ==
    /\ pc = "finished"
    /\ DistinctCodes
    /\ Len(arg.tournament_codes) = 2
    /\ \E c \in InputCodes :
          /\ Cardinality(FetchesOf(c)) = 2
          /\ Cardinality(SuccessesOf(c)) = 1
    /\ Len(games) = 2

\* C27: with --checkpoint N > 0 a checkpoint is saved exactly when the count
\* of successful tournaments reaches a multiple of N, and the results saved then
\* are all results so far, the one of the tournament that triggered it included.
C27_CheckpointHoldsTrigger ==
    /\ [][(checkpoint' # checkpoint) <=>
             (/\ success_count' = success_count + 1
              /\ arg.checkpoint > 0
              /\ success_count' % arg.checkpoint = 0)]_vars
    /\ [][(checkpoint' # checkpoint) =>
             (checkpoint' = Append(checkpoint, all_results'))]_vars

\* C27 failing input reached: with --checkpoint 1 the first tournament
\* succeeded, and the checkpoint saved at that moment holds no result at all
C27_TriggerNotSaved ==
    /\ arg.checkpoint = 1
    /\ success_count = 1
    /\ Len(all_results) = 1
    /\ all_results[1].success
    /\ checkpoint = <<<<>>>>

----------------------------------------------------------------------------
(* Claims on the round blocks of the table walk *)

\* the row has at least 7 cells and its first cell reads "round" in any case
RoundHeader(i) ==
    /\ i <= Len(rows)
    /\ rows[i].ncells >= 7
    /\ lower(rows[i].first) = <<"r", "o", "u", "n", "d">>

\* the row has fewer than 7 cells or its first cell does not start with a digit
EndsBlock(i) ==
    \/ rows[i].ncells < 7
    \/ rows[i].first = <<>>
    \/ rows[i].first[1] \notin Digit

\* first row of the round block of player p: below the summary row and its header
BlockStart(p) ==
    IF RoundHeader(players[p].row + 1) THEN players[p].row + 2 ELSE players[p].row + 1

\* the row that ends the round block of player p (Len(rows) + 1: the table's end)
BlockEnd(p) ==
    SetMin({j \in BlockStart(p)..(Len(rows) + 1) : j > Len(rows) \/ EndsBlock(j)})

\* the rows of the block of player p that are not byes, in table order
RECURSIVE RowsFrom(_, _)
RowsFrom(i, last) ==
    IF i > last THEN <<>>
    ELSE IF i \in ByeRows THEN RowsFrom(i + 1, last)
    ELSE <<i>> \o RowsFrom(i + 1, last)

\* the first row from i on that passes the player-summary test (0: none)
NextPlayerRow(i) ==
    IF \E j \in i..Len(rows) : is_player_row(rows[j])
    THEN SetMin({j \in i..Len(rows) : is_player_row(rows[j])})
    ELSE 0

\* C28: the rounds of every PlayerRecord are, in table order, the round rows (byes
\* left out) of its block; the block starts below the summary row, after at most
\* one header row (at least 7 cells, first cell "round" in any case), and ends at
\* the first row with fewer than 7 cells or a first cell not starting with a
\* digit; the walk goes on from that very row, so the next PlayerRecord is the
\* one of the first summary row from the ending row on.
C28_RoundBlocks ==
    (pc \in {"parsed", "done"} /\ table) =>
        /\ Len(players) = 0 <=> NextPlayerRow(1) = 0
        /\ \A p \in 1..Len(players) :
              /\ [k \in 1..Len(players[p].rounds) |-> players[p].rounds[k].row]
                    = RowsFrom(BlockStart(p), BlockEnd(p) - 1)
              /\ p = 1 => players[p].row = NextPlayerRow(1)
              /\ p < Len(players) => players[p + 1].row = NextPlayerRow(BlockEnd(p))
              /\ p = Len(players) => NextPlayerRow(BlockEnd(p)) = 0

\* C28 witness: a summary row, a header row that is skipped, a round row that is
\* stored for the player, and a row that ends the block
C28_Witness ==
    /\ pc = "done"
    /\ Len(players) = 1
    /\ RoundHeader(players[1].row + 1)
    /\ Len(players[1].rounds) = 1
    /\ players[1].rounds[1].row = players[1].row + 2
    /\ BlockEnd(1) = players[1].row + 3
    /\ BlockEnd(1) <= Len(rows)

----------------------------------------------------------------------------
(* Claim on the two readings of one score cell (checked under SpecScoreCell) *)

\* C29: for every text of a score cell parse_score and extract_forfeit_indicator
\* are never both non-empty: a number from parse_score comes with the indicator
\* "", and an indicator "+" or "-" comes with no number; the indicator is never
\* anything else.  The pair is what the round loop stores in a RoundRecord.
C29_ScoreExcludesForfeit ==
    pc = "done" =>
        /\ ret.forfeit \in {"", "+", "-"}
        /\ ret.score # NoneNum => ret.forfeit = ""
        /\ ret.forfeit \in {"+", "-"} => ret.score = NoneNum
        /\ ret.score \in {NoneNum, 0, 1, 2}

\* C29 witness: a forfeit text that also holds the number 1 gives an indicator and
\* no score
C29_Witness ==
    /\ pc = "done"
    /\ Contains(lower(arg), ForfeitWord)
    /\ Contains(arg, <<"1">>)
    /\ ret.forfeit \in {"+", "-"}
    /\ ret.score = NoneNum

----------------------------------------------------------------------------
(* Claim on the order of the date strings (checked under SpecDateRows) *)

\* the lists that hold exactly the strings of S, in any order, one of them
\* possibly more than once
VariantsOf(S) ==
    {l \in SeqsUpTo(S, Cardinality(S) + 1) : {l[i] : i \in 1..Len(l)} = S}

\* C30: infer_date_format gives the same format for every reordering and every
\* duplication of its date strings, so the format of one flatten_to_games
\* call is that of every other iteration order of its set of round dates, and
\* the games and their dates follow from the rows and that format alone.
C30_OrderAndDuplicatesIrrelevant ==
    pc = "done" =>
        /\ \A l \in VariantsOf(round_date_set(flattened)) :
              infer_date_format(l, start_iso, end_iso) = date_format
        /\ games = flatten_to_games(flattened, date_format)

\* C30 witness: two distinct round dates were handed over in the reverse of their
\* row order, the day-first format was inferred from them and dated the games
C30_Witness ==
    /\ pc = "done"
    /\ Len(flattened) = 2
    /\ date_strings = <<flattened[2].round_date, flattened[1].round_date>>
    /\ flattened[1].round_date # flattened[2].round_date
    /\ date_format = "dd/mm/yy"
    /\ Len(games) = 2
    /\ games[1].date # NoneIso

====
